---- MODULE Spec2Model ----
(***************************************************************************)
(* State-machine model of the Converge collaboration server                *)
(* (CollaborationServer, DocumentStore/CRDTDocument) and of the client     *)
(* hooks that feed it (useSocket, useCRDTDocument).                        *)
(*                                                                         *)
(* The server runs on one Node.js event loop: a handler runs without       *)
(* interruption up to its next `await` on I/O (a Prisma query), so every   *)
(* action below is one such run-to-await segment of a handler.             *)
(* A CRDT state is the set of updates merged into it; Y.applyUpdate is     *)
(* set union.                                                              *)
(***************************************************************************)
EXTENDS Integers, FiniteSets, Sequences, Bags, TLC

\* ---------------------------------------------------------------- bounds
MaxJoins == 3      \* join_room events the clients send in a run of Spec
MaxUpdates == 1    \* update_operation events the clients send in a run of Spec
MaxLeaves == 1     \* leave_room events the clients send in a run of Spec
LiteEvents == 4    \* client events of any kind in a run of SpecLite
MsgEvents == 3     \* client events of any kind in a run of SpecMsg
PresenceEvents == 1  \* cursor or typing events in a run of SpecPresence
AdmitEvents == 3    \* client events of any kind in a run of SpecAdmit
StayEvents == 3     \* client events of any kind in a run of SpecStay
OfflineEvents == 4  \* client events of any kind in a run of SpecOffline
RoleEvents == 3     \* client events of any kind in a run of SpecRoles
MaxOffline == 1     \* edits a client makes while its transport is closed
DenyEvents == 3    \* client events of any kind in a run of SpecDeny
DocJoins == 3      \* join_room events in a run of SpecDocs
ConnEvents == 3    \* join_room, leave_room and disconnect events in a run of SpecConn
TickMs == 20000    \* milliseconds the clock advances in one step of SpecClock
MaxTicks == 4      \* clock steps in a run of SpecClock
OrderEvents == 2   \* client events of any kind in a run of SpecOrder
FailEvents == 3    \* client events of any kind in a run of SpecFail
MaxFailures == 1   \* database calls of saveDocument that reject in a run of SpecFail
ShutdownEvents == 3 \* client events of any kind in a run of SpecShutdown
AccessEvents == 2  \* join_room events in a run of SpecAccess
IdleEvents == 2    \* client events of any kind in a run of SpecIdle
ClockEvents == 3   \* client events of any kind in a run of SpecClock

\* ---------------------------------------------------------------- program constants
SNAPSHOT_INTERVAL_MS == 60000

\* ---------------------------------------------------------------- inputs
Conns == {"c1", "c2", "c3"}      \* socket ids
UserOf == [c \in Conns |-> IF c = "c2" THEN "u2" ELSE "u1"]   \* socket.userId
Users == {"u1", "u2"}
Docs == {"d1", "d2"}              \* document ids; roomId is `doc:${documentId}`
Updates == 1..(MaxUpdates + LiteEvents)   \* no run produces more updates
RoomIds == 1..(MaxJoins + LiteEvents)            \* identities of RoomState objects (one per construction)

JWT_EXPIRES_IN == 604800          \* "7d", in seconds
NoRoom == "none"                  \* socketToRoom.get(...) === undefined
NoUser == "nobody"
NoConn == "none"
NullCursor == "null"

\* ---------------------------------------------------------------- state
VARIABLES
    closed,         \* sockets whose transport has closed (socket ids are never reused)
    userSockets,    \* CollaborationServer.userSockets : userId -> set of socket ids
    socketToRoom,   \* CollaborationServer.socketToRoom : socket id -> roomId
    ioRooms,        \* Socket.IO adapter: the rooms each socket has join()ed
    rooms,          \* CollaborationServer.rooms : roomId -> RoomState (0 = no entry)
    heap,           \* the RoomState objects ever constructed
    documentStore,  \* DocumentStore.documents : documentId -> CRDTDocument (0 = no entry)
    ydocs,          \* the CRDTDocument objects: merged updates, destroyed flag
    pendingTimers,  \* armed, not yet fired or cleared, setTimeout handles <<room, n>>
    saves,          \* saveDocument calls suspended at an await
    join,           \* per socket: the handleJoinRoom call suspended at an await
    overtaken,      \* per socket: an earlier handleJoinRoom call, still at an await
    sync,           \* per socket: the handleRequestSync call suspended at its await
    wire,           \* per socket: update_operation packets sent, not yet dispatched
    handshake,      \* per socket: the authentication middleware's call and its token
    db,             \* prisma.document rows: content and version per document
    opLog,          \* prisma.operation rows (a bag: two rows may hold the same values)
    snapshots,      \* prisma.snapshot rows (a bag)
    now,            \* Date.now()
    clientDoc,      \* per socket: the client's Y.Doc (useCRDTDocument)
    budget,         \* client events still to be sent, by kind
    nextUpdate,     \* the next update a client will produce
    hist,           \* history: accepted updates, written states, timers, snapshot times
    server,         \* the process: running, in shutdown() awaiting its saves, or exited
    last,           \* the handler segment that ran last
    out             \* the events that segment emitted

vars == <<closed, userSockets, socketToRoom, ioRooms, rooms, heap, documentStore, ydocs,
          pendingTimers, saves, join, overtaken, sync, wire, handshake,
          db, opLog, snapshots, now, clientDoc,
          budget, nextUpdate, hist, server, last, out>>

\* enum Role
Roles == {"OWNER", "EDITOR", "VIEWER"}

\* RolePermissions, hasPermission, canEdit, canDelete, canShare
RolePermissionsReadOnlyEditor ==
    [r \in Roles |-> IF r = "OWNER" THEN {"read", "write", "delete", "share", "admin"}
                     ELSE {"read"}]
RolePermissions ==
    [r \in Roles |-> IF r = "OWNER" THEN {"read", "write", "delete", "share", "admin"}
                     ELSE IF r = "EDITOR" THEN {"read", "write"}
                     ELSE {"read"}]
hasPermission(role, permission) ==
    IF role \in DOMAIN RolePermissions THEN permission \in RolePermissions[role] ELSE FALSE
canEdit(role) == hasPermission(role, "write")
canDelete(role) == hasPermission(role, "delete")
canShare(role) == hasPermission(role, "share")

\* The rows of the database that checkDocumentAccess reads: the run fixes which
\* documents have a row (all, unless said), their owner (u1 unless said) and their public
\* flag (private unless said).
DocExists == [d \in Docs |-> d \in budget.rows]
DocOwner == [d \in Docs |-> budget.owner]
\* u2 is a collaborator on d1, with the role the run grants (VIEWER unless said; "null"
\* for no row at all), and has no row on d2.
Collaborators ==
    IF budget.grant \in Roles
    THEN {[userId |-> "u2", documentId |-> "d1", role |-> budget.grant]}
    ELSE {}
IsPublic == [d \in Docs |-> budget.public]

\* A check that looks at the public flag before the collaborator row.
checkDocumentAccessPublicFirst(userId, documentId) ==
    IF documentId \notin Docs \/ ~DocExists[documentId]
    THEN [hasAccess |-> FALSE, role |-> "null"]
    ELSE IF DocOwner[documentId] = userId THEN [hasAccess |-> TRUE, role |-> "OWNER"]
    ELSE IF IsPublic[documentId] THEN [hasAccess |-> TRUE, role |-> "VIEWER"]
    ELSE IF \E k \in Collaborators : k.userId = userId /\ k.documentId = documentId
         THEN [hasAccess |-> TRUE,
               role |-> (CHOOSE k \in Collaborators :
                            k.userId = userId /\ k.documentId = documentId).role]
    ELSE [hasAccess |-> FALSE, role |-> "null"]

\* checkDocumentAccess: no document row, the owner, a collaborator row, the public flag.
checkDocumentAccess(userId, documentId) ==
    IF documentId \notin Docs \/ ~DocExists[documentId]
    THEN [hasAccess |-> FALSE, role |-> "null"]
    ELSE IF DocOwner[documentId] = userId THEN [hasAccess |-> TRUE, role |-> "OWNER"]
    ELSE IF \E k \in Collaborators : k.userId = userId /\ k.documentId = documentId
         THEN [hasAccess |-> TRUE,
               role |-> (CHOOSE k \in Collaborators :
                            k.userId = userId /\ k.documentId = documentId).role]
    ELSE IF IsPublic[documentId] THEN [hasAccess |-> TRUE, role |-> "VIEWER"]
    ELSE [hasAccess |-> FALSE, role |-> "null"]

NoRoomState ==
    [documentId |-> NoRoom, users |-> {}, document |-> 0, lastSaveTime |-> 0,
     saveTimeout |-> 0]
NoYDoc == [content |-> {}, destroyed |-> FALSE]
IdleJoin == [pc |-> "idle", documentId |-> NoRoom, roomState |-> 0]
IdleSync == [pc |-> "idle", documentId |-> NoRoom, state |-> {}]

\* The handshake's token: absent, or a JWT with a signature that verifies or not, an
\* expiry time in seconds and a subject.
NoToken == [present |-> FALSE, signed |-> FALSE, exp |-> 0, userId |-> NoUser]
Gone == "gone"                    \* the id of a user whose row has been deleted
Tokens(c) ==
    {NoToken} \cup
    {[present |-> TRUE, signed |-> sg, exp |-> e, userId |-> u] :
        sg \in BOOLEAN, e \in {0, JWT_EXPIRES_IN}, u \in {UserOf[c], Gone}}
NoHandshake == [pc |-> "none", token |-> NoToken, at |-> 0]
Admitted(c) ==
    [pc |-> "admitted", at |-> 0,
     token |-> [present |-> TRUE, signed |-> TRUE, exp |-> JWT_EXPIRES_IN,
                userId |-> UserOf[c]]]

\* The state once the sockets `open` have been admitted and tracked and those of `joined`
\* have joined d1, with the client events of the run bounded by kind and in total.
InitFrom(open, joined, b) ==
    /\ budget = b
    /\ closed = {}
    /\ userSockets = [u \in Users |-> {c \in open : UserOf[c] = u}]
    /\ socketToRoom = [c \in Conns |-> IF c \in joined THEN "d1" ELSE NoRoom]
    /\ ioRooms = [c \in Conns |-> IF c \in joined THEN {"d1"} ELSE {}]
    /\ rooms = [d \in Docs |-> IF joined # {} /\ d = "d1" THEN 1 ELSE 0]
    /\ heap = [r \in RoomIds |->
                 IF joined # {} /\ r = 1
                 THEN [NoRoomState EXCEPT
                          !.documentId = "d1", !.document = 1,
                          !.users = {[id |-> UserOf[c],
                                      role |-> checkDocumentAccess(UserOf[c], "d1").role,
                                      cursor |-> NullCursor] : c \in joined}]
                 ELSE NoRoomState]
    /\ documentStore = [d \in Docs |-> IF joined # {} /\ d = "d1" THEN 1 ELSE 0]
    /\ ydocs = [r \in RoomIds |-> NoYDoc]
    /\ pendingTimers = {}
    /\ saves = {}
    /\ join = [c \in Conns |-> IdleJoin]
    /\ overtaken = [c \in Conns |-> IdleJoin]
    /\ sync = [c \in Conns |-> IdleSync]
    /\ wire = [c \in Conns |-> <<>>]
    /\ handshake = [c \in Conns |-> IF c \in open THEN Admitted(c) ELSE NoHandshake]
    /\ db = [d \in Docs |-> [content |-> {}, version |-> 0]]
    /\ opLog = EmptyBag
    /\ snapshots = EmptyBag
    /\ now = 0
    /\ clientDoc = [c \in Conns |-> {}]
    /\ nextUpdate = 1
    /\ hist = [accepted |-> [r \in RoomIds |-> {}],
               byMember |-> {},
               written |-> [d \in Docs |-> {}],
               snapshotAt |-> [r \in RoomIds |-> 0],
               bursts |-> [r \in RoomIds |-> 0],
               timerSaves |-> [r \in RoomIds |-> 0],
               cleared |-> [r \in RoomIds |-> 0],
               failed |-> [r \in RoomIds |-> {}],
               order |-> <<>>,
               received |-> [c \in Conns |-> <<>>],
               isJoined |-> {},
               offline |-> {},
               heir |-> [c \in Conns |-> NoConn]]
    /\ server = [pc |-> "running", accepted |-> [d \in Docs |-> {}]]
    /\ last = [op |-> "init", conn |-> "none"]
    /\ out = {}

InitWith(open, b) == InitFrom(open, {}, b)

\* The state once the sockets `open` have also joined d1, one after the other, and their
\* joins have completed: one Room, every identity on its roster, nothing edited yet.
InitJoined(open, b) == InitFrom(open, open, b)

\* No client event of any kind, on document d1 only: the runs below raise the kinds
\* they exercise.
Quota ==
    [joins |-> 0, leaves |-> 0, updates |-> 0, malformed |-> 0, syncs |-> 0, cursors |-> 0,
     typings |-> 0, disconnects |-> 0, ticks |-> 0, total |-> 0, docs |-> {"d1"},
     claims |-> {}, failures |-> 0, sends |-> 0, dials |-> {},
     offline |-> 0, grant |-> "VIEWER", owner |-> "u1", public |-> FALSE, rows |-> Docs]

Init ==
    InitWith(Conns, [Quota EXCEPT !.joins = MaxJoins, !.leaves = MaxLeaves,
                                  !.updates = MaxUpdates,
                                  !.total = MaxJoins + MaxLeaves + MaxUpdates])

\* The two tabs of the owner, and any LiteEvents client events of the kinds below.
LiteInit ==
    InitWith({"c1", "c3"}, [Quota EXCEPT !.joins = LiteEvents, !.leaves = LiteEvents,
                                         !.updates = LiteEvents, !.syncs = LiteEvents,
                                         !.cursors = LiteEvents, !.total = LiteEvents])

\* ---------------------------------------------------------------- helpers
\* The mutable server and client state as one record, so that the parts of a
\* handler compose as functions (a handler segment calls several of them).
Srv ==
    [closed |-> closed, userSockets |-> userSockets, socketToRoom |-> socketToRoom,
     ioRooms |-> ioRooms, rooms |-> rooms, heap |-> heap, documentStore |-> documentStore,
     ydocs |-> ydocs, pendingTimers |-> pendingTimers, saves |-> saves,
     clientDoc |-> clientDoc, hist |-> hist, server |-> server, out |-> {}]

Commit(s) ==
    /\ closed' = s.closed
    /\ userSockets' = s.userSockets
    /\ socketToRoom' = s.socketToRoom
    /\ ioRooms' = s.ioRooms
    /\ rooms' = s.rooms
    /\ heap' = s.heap
    /\ documentStore' = s.documentStore
    /\ ydocs' = s.ydocs
    /\ pendingTimers' = s.pendingTimers
    /\ saves' = s.saves
    /\ clientDoc' = s.clientDoc
    /\ hist' = s.hist
    /\ server' = s.server
    /\ out' = s.out

Msg(to, ev) ==
    [to |-> to, ev |-> ev, update |-> 0, state |-> {}, users |-> {}, userId |-> NoUser,
     role |-> "null", message |-> ""]

\* useSocket's listeners: an update_operation goes to applyRemoteUpdate, the state of
\* room_joined and sync_state to applyStateSync; both are Y.applyUpdate on the client doc.
ClientReceive(doc, m) ==
    IF m.ev = "update_operation" THEN doc \cup {m.update}
    ELSE IF m.ev \in {"room_joined", "sync_state"} THEN doc \cup m.state
    ELSE doc

\* An emit reaches the sockets that are still connected.
Emit(s, msgs) ==
    LET live == {m \in msgs : m.to \notin s.closed}
    IN [s EXCEPT !.out = @ \cup live,
                 !.clientDoc = [c \in Conns |->
                     IF \E m \in live : m.to = c
                     THEN ClientReceive(@[c], CHOOSE m \in live : m.to = c)
                     ELSE @[c]]]

\* socket.to(roomId): every socket in the Socket.IO room but the sender.
OthersInRoom(s, c, roomId) == {x \in Conns : roomId \in s.ioRooms[x] /\ x # c}
\* io.to(roomId): every socket in the Socket.IO room.
AllInRoom(s, roomId) == {x \in Conns : roomId \in s.ioRooms[x]}

Connected(c) == c \in userSockets[UserOf[c]]

\* CRDTDocument.getState(): Y.encodeStateAsUpdate of the doc.
getState(s, r) == s.ydocs[s.heap[r].document].content

\* roomState.users.get(userId)?.role
RoleIn(s, r, userId) ==
    IF \E m \in s.heap[r].users : m.id = userId
    THEN (CHOOSE m \in s.heap[r].users : m.id = userId).role
    ELSE "undefined"

\* A roster that appended instead: the entry already held for the key is kept.
usersSetAppending(users, roomUser) == users \cup {roomUser}

\* roomState.users.set(userId, roomUser): Map.set replaces the entry of the key.
usersSet(users, roomUser) == {m \in users : m.id # roomUser.id} \cup {roomUser}

\* roomState.users.delete(userId)
usersDelete(users, userId) == {m \in users : m.id # userId}

\* A scheduleSave that armed a new timer without clearing the one held.
scheduleSaveNoClear(s, r) ==
    LET h == s.heap[r].saveTimeout
        wasPending == <<r, h>> \in s.pendingTimers
    IN [s EXCEPT !.pendingTimers = @ \cup {<<r, h + 1>>},
                 !.heap[r].saveTimeout = h + 1,
                 !.hist.bursts[r] = IF wasPending THEN @ ELSE @ + 1]

\* scheduleSave: clearTimeout of the handle held, then a new setTimeout.
scheduleSave(s, r) ==
    LET h == s.heap[r].saveTimeout
        wasPending == <<r, h>> \in s.pendingTimers
    IN [s EXCEPT !.pendingTimers = (@ \ {<<r, h>>}) \cup {<<r, h + 1>>},
                 !.heap[r].saveTimeout = h + 1,
                 !.hist.bursts[r] = IF wasPending THEN @ ELSE @ + 1]

\* saveDocument up to its first await: the state is encoded and the write is issued.
SaveTask(s, r, via, by) ==
    [via |-> via, by |-> by, roomState |-> r, state |-> getState(s, r), now |-> now,
     pc |-> "write", wrote |-> 0, version |-> 0]

\* A check that found no other socket of the user in the room, whatever is mapped.
userSocketsInRoomNone(s, c, roomId) == {}

\* handleLeaveRoom, "Check if user has other sockets in this room": the tracked sockets
\* of the user that are mapped to the room, but this one.
userSocketsInRoom(s, c, roomId) ==
    {sid \in s.userSockets[UserOf[c]] : s.socketToRoom[sid] = roomId /\ sid # c}

\* roomState.users.size === 0
usersSizeAtMostOne(users) == Cardinality(users) <= 1
usersSizeZero(users) == users = {}

\* handleLeaveRoom up to `await this.saveDocument(roomState)`.
\* Returns the state after it and whether the handler is now awaiting the flush.
handleLeaveRoom(s, c, via) ==
    LET roomId == s.socketToRoom[c]
        r == IF roomId = NoRoom THEN 0 ELSE s.rooms[roomId]
    IN IF roomId = NoRoom \/ r = 0 THEN [srv |-> s, awaiting |-> FALSE, roomState |-> 0]
       ELSE
       LET userId == UserOf[c]
           s1 == IF userSocketsInRoom(s, c, roomId) = {}
                 THEN Emit([s EXCEPT !.heap[r].users = usersDelete(@, userId)],
                           {[Msg(x, "user_left") EXCEPT !.userId = userId] :
                               x \in OthersInRoom(s, c, roomId)})
                 ELSE s
           s2 == [s1 EXCEPT !.ioRooms[c] = @ \ {roomId}, !.socketToRoom[c] = NoRoom]
       IN IF usersSizeZero(s2.heap[r].users)
          THEN [srv |-> [s2 EXCEPT !.saves = @ \cup {SaveTask(s2, r, via, c)}],
                awaiting |-> TRUE, roomState |-> r]
          ELSE [srv |-> s2, awaiting |-> FALSE, roomState |-> r]

\* handleLeaveRoom after the flush: clearTimeout, documentStore.remove, rooms.delete.
cleanupRoom(s, r) ==
    LET h == s.heap[r].saveTimeout
        d == s.heap[r].documentId
        y == s.documentStore[d]
        s1 == [s EXCEPT !.pendingTimers = @ \ {<<r, h>>},
                        !.hist.cleared[r] = IF <<r, h>> \in s.pendingTimers THEN @ + 1 ELSE @]
        s2 == IF y # 0
              THEN [s1 EXCEPT !.ydocs[y].destroyed = TRUE, !.documentStore[d] = 0]
              ELSE s1
    IN [s2 EXCEPT !.rooms[d] = 0]

\* handleJoinRoom, "Add user to room": a fresh RoomUser with a null cursor.
addUser(s, r, userId, role) ==
    [s EXCEPT !.heap[r].users =
        usersSet(@, [id |-> userId, role |-> role, cursor |-> NullCursor])]

\* handleJoinRoom from socket.join(roomId) to its next await.
joinEnter(s, c, d) ==
    LET s1 == [s EXCEPT !.ioRooms[c] = @ \cup {d}, !.socketToRoom[c] = d]
        r == s1.rooms[d]
    IN IF r # 0
       THEN [srv |-> addUser(s1, r, UserOf[c], checkDocumentAccess(UserOf[c], d).role),
             join |-> [pc |-> "info", documentId |-> d, roomState |-> r]]
       ELSE [srv |-> s1, join |-> [pc |-> "load", documentId |-> d, roomState |-> 0]]


\* ---------------------------------------------------------------- actions
Internal == [op |-> "internal", conn |-> "none"]

\* verifyToken: jwt.verify throws on a signature that does not verify and on an expiry
\* time that has passed, and the catch returns null (here: NoUser).
verifyTokenIgnoreExpiration(token, t) == IF token.signed THEN token.userId ELSE NoUser
verifyToken(token, t) ==
    IF token.signed /\ t \div 1000 < token.exp THEN token.userId ELSE NoUser

\* prisma.user.findUnique({ where: { id } }) finds a row.
findUser(id) == id \in Users

\* trackUserSocket
trackUserSocket(s, c) == [s EXCEPT !.userSockets[UserOf[c]] = @ \cup {c}]

\* A socket connects: the authentication middleware runs up to next(new Error(...)) or
\* to its await of prisma.user.findUnique.
Handshake(c, token) ==
    /\ c \in budget.dials
    /\ handshake[c].pc = "none"
    /\ handshake' = [handshake EXCEPT ![c] =
          [pc |-> IF ~token.present THEN "refused"
                  ELSE IF verifyToken(token, now) = NoUser THEN "refused"
                  ELSE "lookup",
           token |-> token, at |-> now]]
    /\ last' = Internal
    /\ Commit(Srv)
    /\ UNCHANGED <<wire, overtaken, join, sync, db, opLog, snapshots, now, budget, nextUpdate>>

\* findUnique returned: without a row the socket is refused; with one next() is called
\* and the "connection" listener tracks the socket and registers its handlers.
HandshakeLookup(c) ==
    /\ handshake[c].pc = "lookup"
    /\ LET found == findUser(verifyToken(handshake[c].token, handshake[c].at))
       IN /\ handshake' = [handshake EXCEPT ![c].pc = IF found THEN "admitted" ELSE "refused"]
          /\ Commit(IF found THEN trackUserSocket(Srv, c) ELSE Srv)
    /\ last' = Internal
    /\ UNCHANGED <<wire, overtaken, join, sync, db, opLog, snapshots, now, budget, nextUpdate>>

\* join_room arrives: handleJoinRoom runs to `await checkDocumentAccess`.
JoinRoom(c, d) ==
    /\ Connected(c)
    /\ join[c].pc = "idle"
    /\ d \in budget.docs
    /\ budget.joins > 0 /\ budget.total > 0
    /\ budget' = [budget EXCEPT !.joins = @ - 1, !.total = @ - 1]
    /\ join' = [join EXCEPT ![c] = [pc |-> "access", documentId |-> d, roomState |-> 0]]
    /\ last' = Internal
    /\ Commit(Srv)
    /\ UNCHANGED <<wire, handshake, overtaken, sync, db, opLog, snapshots, now, nextUpdate>>

\* A denial that comes after the implicit leave of the current room.
denyJoinAfterLeave(s, c) ==
    Emit(handleLeaveRoom(s, c, "join").srv,
         {[Msg(c, "error") EXCEPT !.message = "Access denied"]})

\* handleJoinRoom, `if (!access.hasAccess || !access.role)`: the error event and return.
denyJoin(s, c) ==
    Emit(s, {[Msg(c, "error") EXCEPT !.message = "Access denied"]})

\* checkDocumentAccess returned: denied, or the implicit leave and then either the
\* flush of the room left, or socket.join and the lookup of the room joined.
JoinAccess(c) ==
    /\ join[c].pc = "access"
    /\ LET d == join[c].documentId
           access == checkDocumentAccess(UserOf[c], d)
           left == handleLeaveRoom(Srv, c, "join")
           entered == joinEnter(left.srv, c, d)
       IN IF ~access.hasAccess \/ access.role = "null"
          THEN /\ Commit(denyJoin(Srv, c))
               /\ join' = [join EXCEPT ![c] = IdleJoin]
          ELSE IF left.awaiting
          THEN /\ Commit(left.srv)
               /\ join' = [join EXCEPT ![c] =
                              [pc |-> "flush", documentId |-> d, roomState |-> left.roomState]]
          ELSE /\ Commit(entered.srv)
               /\ join' = [join EXCEPT ![c] = entered.join]
    /\ last' = Internal
    /\ UNCHANGED <<wire, handshake, overtaken, sync, db, opLog, snapshots, now, budget, nextUpdate>>

\* documentStore.getOrCreate(documentId, initialState)
getOrCreate(s, d, r, initialState) ==
    IF s.documentStore[d] # 0 THEN [srv |-> s, doc |-> s.documentStore[d]]
    ELSE [srv |-> [s EXCEPT !.ydocs[r] = [content |-> initialState, destroyed |-> FALSE],
                            !.documentStore[d] = r],
          doc |-> r]

\* The RoomState the next construction allocates.
NewRoom(s) == CHOOSE r \in RoomIds :
                 /\ s.heap[r] = NoRoomState
                 /\ \A q \in RoomIds : q < r => s.heap[q] # NoRoomState

\* prisma.document.findUnique returned the document: the CRDT document is taken from
\* the store or created, a RoomState is constructed and registered, the user is added.
joinLoad(s, c, d) ==
    LET r == NewRoom(s)
        got == getOrCreate(s, d, r, db[d].content)
        s1 == [got.srv EXCEPT
                  !.heap[r] = [documentId |-> d, users |-> {}, document |-> got.doc,
                               lastSaveTime |-> now, saveTimeout |-> 0],
                  !.rooms[d] = r]
        s2 == addUser(s1, r, UserOf[c], checkDocumentAccess(UserOf[c], d).role)
    IN [srv |-> [s2 EXCEPT !.hist.snapshotAt[r] = now],
        join |-> [pc |-> "info", documentId |-> d, roomState |-> r]]

JoinLoad(c) ==
    /\ join[c].pc = "load"
    /\ LET loaded == joinLoad(Srv, c, join[c].documentId)
       IN /\ Commit(loaded.srv)
          /\ join' = [join EXCEPT ![c] = loaded.join]
    /\ last' = Internal
    /\ UNCHANGED <<wire, handshake, overtaken, sync, db, opLog, snapshots, now, budget, nextUpdate>>

\* The load does not deliver the document: prisma.document.findUnique resolves to null
\* (the row was deleted after the access check) and the handler emits "Document not found"
\* and returns, or it rejects and the catch emits "Failed to join room". Neither path
\* touches the mapping or the Socket.IO room recorded before the await.
JoinLoadFails(c, message) ==
    /\ join[c].pc = "load"
    /\ budget.failures > 0
    /\ budget' = [budget EXCEPT !.failures = @ - 1]
    /\ Commit(Emit(Srv, {[Msg(c, "error") EXCEPT !.message = message]}))
    /\ join' = [join EXCEPT ![c] = IdleJoin]
    /\ last' = [op |-> "join_failed", conn |-> c]
    /\ UNCHANGED <<wire, handshake, overtaken, sync, db, opLog, snapshots, now, nextUpdate>>

\* socket.to(roomId): the sockets of the Socket.IO room but the sender; io.to(roomId)
\* would be all of them.
ioTo(s, c, roomId) == AllInRoom(s, roomId)
socketTo(s, c, roomId) == OthersInRoom(s, c, roomId)

\* The document info query returned: room_joined to the joiner, user_joined to the others.
joinInfo(s, c, d, r) ==
    LET role == checkDocumentAccess(UserOf[c], d).role
        joined == [Msg(c, "room_joined") EXCEPT
                      !.state = getState(s, r), !.users = s.heap[r].users, !.role = role]
        others == {[Msg(x, "user_joined") EXCEPT !.userId = UserOf[c], !.role = role] :
                      x \in socketTo(s, c, d)}
    IN Emit(s, {joined} \cup others)

JoinInfo(c) ==
    /\ join[c].pc = "info"
    /\ Commit(joinInfo(Srv, c, join[c].documentId, join[c].roomState))
    /\ join' = [join EXCEPT ![c] = IdleJoin]
    /\ last' = Internal
    /\ UNCHANGED <<wire, handshake, overtaken, sync, db, opLog, snapshots, now, budget, nextUpdate>>

\* join_room for another document arrives while the socket's earlier handleJoinRoom call
\* is suspended at the load: the new call runs to `await checkDocumentAccess`, the earlier
\* one stays suspended.
JoinRoomAgain(c, d) ==
    /\ Connected(c)
    /\ join[c].pc = "load" /\ overtaken[c].pc = "idle"
    /\ d \in budget.docs \ {join[c].documentId}
    /\ budget.joins > 0 /\ budget.total > 0
    /\ budget' = [budget EXCEPT !.joins = @ - 1, !.total = @ - 1]
    /\ overtaken' = [overtaken EXCEPT ![c] = join[c]]
    /\ join' = [join EXCEPT ![c] = [pc |-> "access", documentId |-> d, roomState |-> 0]]
    /\ last' = Internal
    /\ Commit(Srv)
    /\ UNCHANGED <<wire, handshake, sync, db, opLog, snapshots, now, nextUpdate>>

\* The load of the earlier call returned.
OvertakenLoad(c) ==
    /\ overtaken[c].pc = "load"
    /\ LET loaded == joinLoad(Srv, c, overtaken[c].documentId)
       IN /\ Commit(loaded.srv)
          /\ overtaken' = [overtaken EXCEPT ![c] = loaded.join]
    /\ last' = Internal
    /\ UNCHANGED <<wire, handshake, join, sync, db, opLog, snapshots, now, budget, nextUpdate>>

\* The document info query of the earlier call returned.
OvertakenInfo(c) ==
    /\ overtaken[c].pc = "info"
    /\ Commit(joinInfo(Srv, c, overtaken[c].documentId, overtaken[c].roomState))
    /\ overtaken' = [overtaken EXCEPT ![c] = IdleJoin]
    /\ last' = Internal
    /\ UNCHANGED <<wire, handshake, join, sync, db, opLog, snapshots, now, budget, nextUpdate>>

\* leave_room arrives: handleLeaveRoom up to the flush, or to its end.
LeaveRoom(c) ==
    /\ Connected(c)
    /\ LET left == handleLeaveRoom(Srv, c, "leave")
       IN /\ left.awaiting => SaveTask(Srv, left.roomState, "leave", c) \notin saves
          /\ Commit(left.srv)
    /\ budget.leaves > 0 /\ budget.total > 0
    /\ budget' = [budget EXCEPT !.leaves = @ - 1, !.total = @ - 1]
    /\ last' = [op |-> "leave_room", conn |-> c]
    /\ UNCHANGED <<wire, handshake, overtaken, join, sync, db, opLog, snapshots, now, nextUpdate>>

\* CollaborationServer.untrackUserSocket
untrackUserSocket(s, userId, socketId) ==
    [s EXCEPT !.userSockets[userId] = @ \ {socketId}]

\* The transport of a socket closes: Socket.IO takes the socket out of its rooms and
\* emits "disconnect"; handleDisconnect untracks the socket and runs handleLeaveRoom, up
\* to the flush or to its end. The history keeps whether the socket's join had completed,
\* that is whether its page showed the editor (isJoined).
Disconnect(c) ==
    /\ Connected(c)
    /\ budget.disconnects > 0 /\ budget.total > 0
    /\ budget' = [budget EXCEPT !.disconnects = @ - 1, !.total = @ - 1]
    /\ LET s0 == [Srv EXCEPT !.closed = @ \cup {c}, !.ioRooms[c] = {},
                             !.hist.isJoined =
                                 IF join[c].pc = "idle" /\ socketToRoom[c] # NoRoom
                                 THEN @ \cup {c} ELSE @]
           left == handleLeaveRoom(untrackUserSocket(s0, UserOf[c], c), c, "leave")
       IN /\ left.awaiting => SaveTask(Srv, left.roomState, "leave", c) \notin saves
          /\ Commit(left.srv)
    /\ last' = [op |-> "disconnect", conn |-> c]
    /\ UNCHANGED <<wire, handshake, overtaken, join, sync, db, opLog, snapshots, now, nextUpdate>>

\* The client's page is read-only for a viewer (readOnly={document.userRole === "VIEWER"}),
\* so only the other roles' edits are applied to the client doc before they are sent.
ClientEdit(s, c, d, u) ==
    IF checkDocumentAccess(UserOf[c], d).role \in {"OWNER", "EDITOR"}
    THEN [s EXCEPT !.clientDoc[c] = @ \cup {u}]
    ELSE s

\* The userId a client puts into a payload: its own, or one the run admits.
ClaimedIds(c) == {UserOf[c]} \cup budget.claims

\* An update that Y.applyUpdate cannot decode.
Malformed == 0 - 1

\* A spread in which the payload's own userId wins.
spreadPayloadLast(payload, userId) == payload

\* `{ ...payload, userId }`: the payload's fields, userId replaced.
spread(payload, userId) == [payload EXCEPT !.userId = userId]

\* A try block that broadcasts the update before it applies it.
tryApplyUpdateBroadcastFirst(s, c, r, payload) ==
    LET sent == Emit(s, {[Msg(x, "update_operation") EXCEPT
                             !.update = payload.update, !.userId = UserOf[c]] :
                             x \in OthersInRoom(s, c, s.socketToRoom[c])})
    IN IF payload.update = Malformed
       THEN Emit(sent, {[Msg(c, "error") EXCEPT !.message = "Failed to apply update"]})
       ELSE scheduleSave([sent EXCEPT !.ydocs[s.heap[r].document].content =
                                         @ \cup {payload.update}], r)

\* handleUpdateOperation, the try block and its catch: applyUpdate throws on an update
\* it cannot decode and leaves the document as it was; otherwise the update is merged,
\* broadcast with the fields named one by one and the socket's userId, and the save is
\* scheduled.
tryApplyUpdate(s, c, r, payload) ==
    IF payload.update = Malformed
    THEN Emit(s, {[Msg(c, "error") EXCEPT !.message = "Failed to apply update"]})
    ELSE LET u == payload.update
             s1 == [s EXCEPT !.ydocs[s.heap[r].document].content = @ \cup {u},
                             !.hist.accepted[r] = @ \cup {u},
                             !.hist.byMember =
                                 IF RoleIn(s, r, UserOf[c]) = "undefined" THEN @
                                 ELSE @ \cup {u}]
             s2 == Emit(s1, {[Msg(x, "update_operation") EXCEPT
                                 !.update = u, !.userId = UserOf[c]] :
                                 x \in OthersInRoom(s1, c, s.socketToRoom[c])})
         IN scheduleSave(s2, r)

\* handleUpdateOperation (it has no await).
handleUpdateOperation(s, c, payload) ==
    LET roomId == s.socketToRoom[c]
        r == IF roomId = NoRoom THEN 0 ELSE s.rooms[roomId]
    IN IF roomId = NoRoom \/ r = 0 THEN s
       ELSE IF RoleIn(s, r, UserOf[c]) = "VIEWER"
       THEN Emit(s, {[Msg(c, "error") EXCEPT !.message = "No permission to edit"]})
       ELSE tryApplyUpdate(s, c, r, payload)

\* update_operation arrives with a new update of the client, no earlier packet of the
\* connection being on its way.
UpdateOperation(c, d) ==
    /\ Connected(c)
    /\ wire[c] = <<>>
    /\ d \in budget.docs
    /\ budget.total > 0
    /\ \E claimed \in ClaimedIds(c) :
          /\ \/ /\ budget.updates > 0
                /\ budget' = [budget EXCEPT !.updates = @ - 1, !.total = @ - 1]
                /\ nextUpdate \in Updates
                /\ nextUpdate' = nextUpdate + 1
                /\ Commit(handleUpdateOperation(ClientEdit(Srv, c, d, nextUpdate), c,
                                                [update |-> nextUpdate, userId |-> claimed]))
             \/ /\ budget.malformed > 0
                /\ budget' = [budget EXCEPT !.malformed = @ - 1, !.total = @ - 1]
                /\ nextUpdate' = nextUpdate
                /\ Commit(handleUpdateOperation(Srv, c,
                                                [update |-> Malformed, userId |-> claimed]))
          /\ last' = [op |-> "update_operation", conn |-> c, claimed |-> claimed]
    /\ UNCHANGED <<wire, handshake, overtaken, join, sync, db, opLog, snapshots, now>>

\* The client edits while its transport is closed and its page still shows the editor
\* (isJoined): the update is applied to the client's Y.Doc; sendUpdate returns without
\* emitting when the socket is not connected, and an emit into a closed transport is not
\* delivered. Nothing is kept for later.
OfflineEdit(c, d) ==
    /\ c \in closed
    /\ c \in hist.isJoined
    /\ hist.heir[c] = NoConn
    /\ d \in budget.docs
    /\ checkDocumentAccess(UserOf[c], d).role \in {"OWNER", "EDITOR"}
    /\ budget.offline > 0 /\ budget.total > 0
    /\ budget' = [budget EXCEPT !.offline = @ - 1, !.total = @ - 1]
    /\ nextUpdate \in Updates
    /\ nextUpdate' = nextUpdate + 1
    /\ Commit([ClientEdit(Srv, c, d, nextUpdate) EXCEPT !.hist.offline = @ \cup {nextUpdate}])
    /\ last' = Internal
    /\ UNCHANGED <<wire, handshake, overtaken, join, sync, db, opLog, snapshots, now>>

\* socket.io-client reconnects (reconnection: true): the same client, with its Y.Doc,
\* gets a new socket id; the middleware runs with the client's token up to its await.
Reconnect(c, c2) ==
    /\ c \in closed
    /\ hist.heir[c] = NoConn
    /\ c2 \in budget.dials /\ c2 # c
    /\ UserOf[c2] = UserOf[c]
    /\ handshake[c2].pc = "none"
    /\ handshake' = [handshake EXCEPT ![c2] = [Admitted(c2) EXCEPT !.pc = "lookup", !.at = now]]
    /\ Commit([Srv EXCEPT !.clientDoc[c2] = clientDoc[c], !.hist.heir[c] = c2])
    /\ last' = Internal
    /\ UNCHANGED <<wire, overtaken, join, sync, db, opLog, snapshots, now, budget, nextUpdate>>

\* A dispatch that took the newest packet of the connection first.
nextPacketNewest(q) == q[Len(q)]

\* Socket.IO hands the packets of a connection to the socket.on listener in the order
\* they were sent.
nextPacket(q) == Head(q)

\* The client edits its document and sendUpdate emits the update; the packet is on its
\* way to the server.
SendUpdate(c, d) ==
    /\ Connected(c)
    /\ d \in budget.docs
    /\ checkDocumentAccess(UserOf[c], d).role \in {"OWNER", "EDITOR"}
    /\ budget.sends > 0 /\ budget.total > 0
    /\ budget' = [budget EXCEPT !.sends = @ - 1, !.total = @ - 1]
    /\ nextUpdate \in Updates
    /\ nextUpdate' = nextUpdate + 1
    /\ wire' = [wire EXCEPT ![c] = Append(@, [update |-> nextUpdate, userId |-> UserOf[c]])]
    /\ Commit(ClientEdit(Srv, c, d, nextUpdate))
    /\ last' = Internal
    /\ UNCHANGED <<handshake, overtaken, join, sync, db, opLog, snapshots, now>>

\* The next update_operation packet of a connection reaches its listener:
\* handleUpdateOperation runs to its end. The history records the order in which the
\* updates were applied and the order in which each socket was sent them.
DispatchUpdate(c) ==
    /\ Connected(c)
    /\ wire[c] # <<>>
    /\ wire' = [wire EXCEPT ![c] = Tail(@)]
    /\ LET u == nextPacket(wire[c]).update
           handled == handleUpdateOperation(Srv, c, nextPacket(wire[c]))
           to == {m.to : m \in {x \in handled.out : x.ev = "update_operation"}}
       IN Commit([handled EXCEPT
                     !.hist.order = IF handled.hist.accepted # hist.accepted
                                    THEN Append(@, <<c, u>>) ELSE @,
                     !.hist.received = [x \in Conns |->
                         IF x \in to THEN Append(@[x], <<c, u>>) ELSE @[x]]])
    /\ last' = [op |-> "update_operation", conn |-> c, claimed |-> UserOf[c]]
    /\ UNCHANGED <<handshake, overtaken, join, sync, db, opLog, snapshots, now, budget,
                   nextUpdate>>

\* A handleRequestSync that served the last durable content instead.
handleRequestSyncDurable(s, c) ==
    [pc |-> "version", documentId |-> s.socketToRoom[c],
     state |-> db[s.socketToRoom[c]].content]

\* handleRequestSync up to `await this.getDocumentVersion`: the payload's state is
\* roomState.document.getStateArray(), evaluated before the await.
handleRequestSync(s, c) ==
    [pc |-> "version", documentId |-> s.socketToRoom[c],
     state |-> getState(s, s.rooms[s.socketToRoom[c]])]

\* request_sync arrives: the state is encoded, then the handler awaits the version.
RequestSync(c) ==
    /\ Connected(c)
    /\ sync[c].pc = "idle"
    /\ socketToRoom[c] # NoRoom
    /\ rooms[socketToRoom[c]] # 0
    /\ sync' = [sync EXCEPT ![c] = handleRequestSync(Srv, c)]
    /\ last' = Internal
    /\ budget.syncs > 0 /\ budget.total > 0
    /\ budget' = [budget EXCEPT !.syncs = @ - 1, !.total = @ - 1]
    /\ Commit(Srv)
    /\ UNCHANGED <<wire, handshake, overtaken, join, db, opLog, snapshots, now, nextUpdate>>

\* request_sync arrives from a socket that is mapped to no room, or to a room that is
\* not registered: handleRequestSync returns at `if (!roomId)` or `if (!roomState)`.
RequestSyncIgnored(c) ==
    /\ Connected(c)
    /\ sync[c].pc = "idle"
    /\ IF socketToRoom[c] = NoRoom THEN TRUE ELSE rooms[socketToRoom[c]] = 0
    /\ budget.syncs > 0 /\ budget.total > 0
    /\ budget' = [budget EXCEPT !.syncs = @ - 1, !.total = @ - 1]
    /\ last' = [op |-> "request_sync", conn |-> c]
    /\ Commit(Srv)
    /\ UNCHANGED <<wire, handshake, overtaken, join, sync, db, opLog, snapshots, now, nextUpdate>>

\* getDocumentVersion returned: sync_state is emitted to the requester.
SyncReply(c) ==
    /\ sync[c].pc = "version"
    /\ Commit(Emit(Srv, {[Msg(c, "sync_state") EXCEPT !.state = sync[c].state]}))
    /\ sync' = [sync EXCEPT ![c] = IdleSync]
    /\ last' = Internal
    /\ UNCHANGED <<wire, handshake, overtaken, join, db, opLog, snapshots, now, budget, nextUpdate>>

\* A debounce timer fires: its callback calls saveDocument(roomState).
TimerFire(t) ==
    /\ t \in pendingTimers
    /\ LET r == t[1]
           task == SaveTask(Srv, r, "timer", "none")
       IN /\ task \notin saves
          /\ Commit([Srv EXCEPT !.pendingTimers = @ \ {t},
                                !.saves = @ \cup {task},
                                !.hist.timerSaves[r] = @ + 1])
    /\ last' = Internal
    /\ UNCHANGED <<wire, handshake, overtaken, join, sync, db, opLog, snapshots, now, budget, nextUpdate>>

\* prisma.document.update returned: content written, version incremented; the version
\* this increment produced is kept as history in `wrote`. saveDocument goes on to
\* `await this.getDocumentVersion` for the operation record.
SaveWrite(t) ==
    /\ t \in saves
    /\ t.pc = "write"
    /\ LET d == heap[t.roomState].documentId
           t1 == [t EXCEPT !.pc = "version", !.wrote = db[d].version + 1]
       IN /\ db' = [db EXCEPT ![d] = [content |-> t.state, version |-> @.version + 1]]
          /\ t1 \notin saves
          /\ Commit([Srv EXCEPT !.saves = (@ \ {t}) \cup {t1},
                                !.hist.written[d] = @ \cup t.state])
    /\ last' = Internal
    /\ UNCHANGED <<wire, handshake, overtaken, join, sync, opLog, snapshots, now, budget, nextUpdate>>

\* getDocumentVersion: the version the document's row holds when it is read.
getDocumentVersion(documentId) == db[documentId].version

\* getDocumentVersion returned: prisma.operation.create, or prisma.snapshot.create, is
\* issued with the version read.
SaveVersion(t) ==
    /\ t \in saves
    /\ t.pc \in {"version", "snapversion"}
    /\ LET t1 == [t EXCEPT !.pc = IF t.pc = "version" THEN "log" ELSE "snap",
                           !.version = getDocumentVersion(heap[t.roomState].documentId)]
       IN /\ t1 \notin saves
          /\ Commit([Srv EXCEPT !.saves = (@ \ {t}) \cup {t1}])
    /\ last' = Internal
    /\ UNCHANGED <<wire, handshake, overtaken, join, sync, db, opLog, snapshots, now, budget, nextUpdate>>

\* now - roomState.lastSaveTime > this.SNAPSHOT_INTERVAL_MS
snapshotDue(s, t) == t.now - s.heap[t.roomState].lastSaveTime > SNAPSHOT_INTERVAL_MS

\* The row a create that has returned added: the operation record, or the snapshot.
Row(t) == [documentId |-> heap[t.roomState].documentId, data |-> t.state,
           version |-> t.version]

\* prisma.operation.create returned and a snapshot is due: saveDocument goes on to
\* `await this.getDocumentVersion` for the snapshot.
SaveLogged(t) ==
    /\ t \in saves
    /\ t.pc = "log"
    /\ snapshotDue(Srv, t)
    /\ opLog' = opLog (+) SetToBag({Row(t)})
    /\ LET t1 == [t EXCEPT !.pc = "snapversion"]
       IN /\ t1 \notin saves
          /\ Commit([Srv EXCEPT !.saves = (@ \ {t}) \cup {t1}])
    /\ last' = Internal
    /\ UNCHANGED <<wire, handshake, overtaken, join, sync, db, snapshots, now, budget, nextUpdate>>

\* The last create of a save returns: the operation record when no snapshot is due,
\* the snapshot otherwise.
SaveReturns(t) ==
    /\ t \in saves
    /\ \/ t.pc = "log" /\ ~snapshotDue(Srv, t)
       \/ t.pc = "snap"
    /\ opLog' = IF t.pc = "log" THEN opLog (+) SetToBag({Row(t)}) ELSE opLog
    /\ snapshots' = IF t.pc = "snap" THEN snapshots (+) SetToBag({Row(t)}) ELSE snapshots

\* saveDocument after its writes: lastSaveTime = now, document_saved goes to the
\* Socket.IO room.
saveFinish(s, t) ==
    LET d == s.heap[t.roomState].documentId
        s1 == [s EXCEPT !.saves = @ \ {t},
                        !.heap[t.roomState].lastSaveTime = t.now,
                        !.hist.snapshotAt[t.roomState] = IF t.pc = "snap" THEN now ELSE @]
    IN Emit(s1, {Msg(x, "document_saved") : x \in AllInRoom(s, d)})

\* A timer-driven save completes.
SaveDoneTimer(t) ==
    /\ SaveReturns(t)
    /\ t.via = "timer"
    /\ Commit(saveFinish(Srv, t))
    /\ last' = Internal
    /\ UNCHANGED <<wire, handshake, overtaken, join, sync, db, now, budget, nextUpdate>>

\* The flush of leave_room completes and handleLeaveRoom cleans the room up.
SaveDoneLeave(t) ==
    /\ SaveReturns(t)
    /\ t.via = "leave"
    /\ Commit(cleanupRoom(saveFinish(Srv, t), t.roomState))
    /\ last' = Internal
    /\ UNCHANGED <<wire, handshake, overtaken, join, sync, db, now, budget, nextUpdate>>

\* The flush of a join's implicit leave completes: cleanup, then the join goes on.
SaveDoneJoin(t) ==
    /\ SaveReturns(t)
    /\ t.via = "join"
    /\ join[t.by].pc = "flush"
    /\ LET entered == joinEnter(cleanupRoom(saveFinish(Srv, t), t.roomState), t.by,
                                join[t.by].documentId)
       IN /\ Commit(entered.srv)
          /\ join' = [join EXCEPT ![t.by] = entered.join]
    /\ last' = Internal
    /\ UNCHANGED <<wire, handshake, overtaken, sync, db, now, budget, nextUpdate>>

\* A catch block that reports the failure to the room.
saveFailedNotifying(s, t) ==
    Emit([s EXCEPT !.saves = @ \ {t}],
         {[Msg(x, "error") EXCEPT !.message = "Failed to save"] :
             x \in AllInRoom(s, s.heap[t.roomState].documentId)})

\* saveDocument, `catch (error)`: the rejection of a database call is logged and
\* saveDocument returns; lastSaveTime stays and document_saved is not emitted. The
\* state a rejected prisma.document.update should have written is kept as history.
saveFailed(s, t) ==
    [s EXCEPT !.saves = @ \ {t},
              !.hist.failed[t.roomState] = IF t.pc = "write" THEN @ \cup t.state ELSE @]

\* A saveDocument that lets the rejection through: handleLeaveRoom ends at its await.
flushFailedRethrown(s, t) ==
    saveFailed(s, t)

\* handleLeaveRoom after a flush that failed: saveDocument has returned normally, so
\* the timer is cleared and the room removed as after any flush.
flushFailed(s, t) ==
    cleanupRoom(saveFailed(s, t), t.roomState)

SaveFailed(t) == [op |-> "save_failed", conn |-> t.by, task |-> t]

\* A database call of a timer-driven save rejects.
SaveFailsTimer(t) ==
    /\ t \in saves
    /\ t.via = "timer"
    /\ budget.failures > 0
    /\ budget' = [budget EXCEPT !.failures = @ - 1]
    /\ Commit(saveFailed(Srv, t))
    /\ last' = SaveFailed(t)
    /\ UNCHANGED <<wire, handshake, overtaken, join, sync, db, opLog, snapshots, now, nextUpdate>>

\* A database call of the flush of leave_room or disconnect rejects.
SaveFailsLeave(t) ==
    /\ t \in saves
    /\ t.via = "leave"
    /\ budget.failures > 0
    /\ budget' = [budget EXCEPT !.failures = @ - 1]
    /\ Commit(flushFailed(Srv, t))
    /\ last' = SaveFailed(t)
    /\ UNCHANGED <<wire, handshake, overtaken, join, sync, db, opLog, snapshots, now, nextUpdate>>

\* A database call of the flush of a join's implicit leave rejects: cleanup, then the
\* join goes on.
SaveFailsJoin(t) ==
    /\ t \in saves
    /\ t.via = "join"
    /\ join[t.by].pc = "flush"
    /\ budget.failures > 0
    /\ budget' = [budget EXCEPT !.failures = @ - 1]
    /\ LET entered == joinEnter(flushFailed(Srv, t), t.by, join[t.by].documentId)
       IN /\ Commit(entered.srv)
          /\ join' = [join EXCEPT ![t.by] = entered.join]
    /\ last' = SaveFailed(t)
    /\ UNCHANGED <<wire, handshake, overtaken, sync, db, opLog, snapshots, now, nextUpdate>>

\* SIGTERM or SIGINT: shutdown() calls saveAllDocuments, which starts a saveDocument for
\* every RoomState of the registry; each runs to its `await prisma.document.update`, and
\* Promise.all awaits them. The updates accepted so far are kept as history.
Shutdown ==
    /\ server.pc = "running"
    /\ LET resident == {rooms[d] : d \in {x \in Docs : rooms[x] # 0}}
           started == {SaveTask(Srv, r, "shutdown", "none") : r \in resident}
       IN Commit([Srv EXCEPT !.saves = @ \cup started,
                             !.server = [pc |-> "saving",
                                         accepted |-> [d \in Docs |->
                                             UNION {hist.accepted[r] :
                                                 r \in {x \in RoomIds :
                                                     heap[x].documentId = d}}]]])
    /\ last' = [op |-> "shutdown", conn |-> "none"]
    /\ UNCHANGED <<wire, handshake, overtaken, join, sync, db, opLog, snapshots, now, budget, nextUpdate>>

\* A save of saveAllDocuments completes.
SaveDoneShutdown(t) ==
    /\ SaveReturns(t)
    /\ t.via = "shutdown"
    /\ Commit(saveFinish(Srv, t))
    /\ last' = Internal
    /\ UNCHANGED <<wire, handshake, overtaken, join, sync, db, now, budget, nextUpdate>>

\* A database call of a save of saveAllDocuments rejects: saveDocument catches it and
\* its promise resolves.
SaveFailsShutdown(t) ==
    /\ t \in saves
    /\ t.via = "shutdown"
    /\ budget.failures > 0
    /\ budget' = [budget EXCEPT !.failures = @ - 1]
    /\ Commit(saveFailed(Srv, t))
    /\ last' = SaveFailed(t)
    /\ UNCHANGED <<wire, handshake, overtaken, join, sync, db, opLog, snapshots, now, nextUpdate>>

\* Promise.all resolved: io.close() closes every socket, and index.ts calls
\* process.exit(0) when shutdown() has returned, so no handler runs any further.
ShutdownClose ==
    /\ server.pc = "saving"
    /\ \A t \in saves : t.via # "shutdown"
    /\ Commit([Srv EXCEPT !.server.pc = "closed", !.closed = Conns,
                          !.ioRooms = [c \in Conns |-> {}]])
    /\ last' = [op |-> "close", conn |-> "none"]
    /\ UNCHANGED <<wire, handshake, overtaken, join, sync, db, opLog, snapshots, now, budget, nextUpdate>>

\* A handler that looks the room up through any tracked socket of the identity.
handleCursorPresenceOfUser(s, c, payload) ==
    LET mapped == {s.socketToRoom[x] : x \in s.userSockets[UserOf[c]]} \ {NoRoom}
        roomId == IF mapped = {} THEN NoRoom ELSE CHOOSE d \in mapped : TRUE
        r == IF roomId = NoRoom THEN 0 ELSE s.rooms[roomId]
        userId == UserOf[c]
    IN IF roomId = NoRoom \/ r = 0 THEN s
       ELSE LET s1 == [s EXCEPT !.heap[r].users =
                          {IF m.id = userId THEN [m EXCEPT !.cursor = payload.cursor] ELSE m :
                              m \in @}]
            IN Emit(s1, {[Msg(x, "cursor_presence") EXCEPT
                             !.userId = spread(payload, userId).userId] :
                            x \in OthersInRoom(s1, c, roomId)})

\* handleCursorPresence (it has no await).
handleCursorPresence(s, c, payload) ==
    LET roomId == s.socketToRoom[c]
        r == IF roomId = NoRoom THEN 0 ELSE s.rooms[roomId]
        userId == UserOf[c]
    IN IF roomId = NoRoom \/ r = 0 THEN s
       ELSE LET s1 == [s EXCEPT !.heap[r].users =
                          {IF m.id = userId THEN [m EXCEPT !.cursor = payload.cursor] ELSE m :
                              m \in @}]
            IN Emit(s1, {[Msg(x, "cursor_presence") EXCEPT
                             !.userId = spread(payload, userId).userId] :
                            x \in OthersInRoom(s1, c, roomId)})

\* cursor_presence arrives.
CursorPresence(c, cursor) ==
    /\ Connected(c)
    /\ budget.cursors > 0 /\ budget.total > 0
    /\ budget' = [budget EXCEPT !.cursors = @ - 1, !.total = @ - 1]
    /\ \E claimed \in ClaimedIds(c) :
          /\ Commit(handleCursorPresence(Srv, c, [cursor |-> cursor, userId |-> claimed]))
          /\ last' = [op |-> "cursor_presence", conn |-> c, claimed |-> claimed]
    /\ UNCHANGED <<wire, handshake, overtaken, join, sync, db, opLog, snapshots, now, nextUpdate>>

\* handleTypingIndicator (it has no await, and looks at the mapping only).
handleTypingIndicator(s, c, payload) ==
    LET roomId == s.socketToRoom[c]
    IN IF roomId = NoRoom THEN s
       ELSE Emit(s, {[Msg(x, "typing_indicator") EXCEPT
                         !.userId = spread(payload, UserOf[c]).userId] :
                        x \in OthersInRoom(s, c, roomId)})

\* typing_indicator arrives.
TypingIndicator(c) ==
    /\ Connected(c)
    /\ budget.typings > 0 /\ budget.total > 0
    /\ budget' = [budget EXCEPT !.typings = @ - 1, !.total = @ - 1]
    /\ \E claimed \in ClaimedIds(c) :
          /\ Commit(handleTypingIndicator(Srv, c, [isTyping |-> TRUE, userId |-> claimed]))
          /\ last' = [op |-> "typing_indicator", conn |-> c, claimed |-> claimed]
    /\ UNCHANGED <<wire, handshake, overtaken, join, sync, db, opLog, snapshots, now, nextUpdate>>

\* Time passes: Date.now() advances by TickMs. The debounce timers, due after 2000 ms,
\* have fired by then; database calls may still be awaited.
Tick ==
    /\ budget.ticks > 0
    /\ pendingTimers = {}
    /\ budget' = [budget EXCEPT !.ticks = @ - 1]
    /\ now' = now + TickMs
    /\ last' = Internal
    /\ Commit(Srv)
    /\ UNCHANGED <<wire, handshake, overtaken, join, sync, db, opLog, snapshots, nextUpdate>>

Next ==
    \/ \E c \in Conns, d \in Docs : JoinRoom(c, d)
    \/ \E c \in Conns : JoinAccess(c)
    \/ \E c \in Conns : JoinLoad(c)
    \/ \E c \in Conns : JoinInfo(c)
    \/ \E c \in Conns : LeaveRoom(c)
    \/ \E c \in Conns, d \in Docs : UpdateOperation(c, d)
    \/ \E t \in pendingTimers : TimerFire(t)
    \/ \E t \in saves : SaveWrite(t)
    \/ \E t \in saves : SaveVersion(t)
    \/ \E t \in saves : SaveDoneTimer(t)
    \/ \E t \in saves : SaveDoneLeave(t)
    \/ \E t \in saves : SaveDoneJoin(t)

Spec == Init /\ [][Next]_vars

NextLite ==
    \/ Next
    \/ \E c \in Conns : RequestSync(c)
    \/ \E c \in Conns : SyncReply(c)
    \/ \E c \in Conns : CursorPresence(c, "pos")

SpecLite == LiteInit /\ [][NextLite]_vars

\* Joins, leaves, disconnects and an update of the three sockets on one document.
ConnInit ==
    InitWith(Conns, [Quota EXCEPT !.joins = ConnEvents, !.leaves = ConnEvents,
                                  !.disconnects = ConnEvents, !.updates = MaxUpdates,
                                  !.total = ConnEvents])

NextConn ==
    \/ Next
    \/ \E c \in Conns : Disconnect(c)

SpecConn == ConnInit /\ [][NextConn]_vars

\* The two tabs of the owner on two documents: joins, also of a socket whose earlier
\* join is still loading, a leave and an update.
DocsInit ==
    InitWith({"c1", "c3"}, [Quota EXCEPT !.joins = DocJoins, !.leaves = MaxLeaves,
                                         !.updates = MaxUpdates,
                                         !.total = DocJoins + MaxUpdates,
                                         !.docs = Docs])

NextDocs ==
    \/ Next
    \/ \E c \in Conns, d \in Docs : JoinRoomAgain(c, d)
    \/ \E c \in Conns : OvertakenLoad(c) \/ OvertakenInfo(c)

SpecDocs == DocsInit /\ [][NextDocs]_vars

\* A tab of the owner and the viewer of d1, who has no access to d2.
DenyInit ==
    InitWith({"c1", "c2"}, [Quota EXCEPT !.joins = DenyEvents, !.leaves = DenyEvents,
                                         !.updates = DenyEvents, !.total = DenyEvents,
                                         !.docs = Docs])

SpecDeny == DenyInit /\ [][Next]_vars

\* A tab of the owner and the viewer: joins, updates, also undecodable ones, cursor and
\* typing events, each with a userId in the payload that may be the other user's.
MsgInit ==
    InitWith({"c1", "c2"},
             [Quota EXCEPT !.joins = MsgEvents, !.updates = MsgEvents,
                           !.malformed = MsgEvents, !.cursors = MsgEvents,
                           !.typings = MsgEvents, !.leaves = MsgEvents,
                           !.total = MsgEvents, !.claims = Users])

NextMsg ==
    \/ Next
    \/ \E c \in Conns : CursorPresence(c, "pos") \/ TypingIndicator(c)

SpecMsg == MsgInit /\ [][NextMsg]_vars

\* One tab of the owner on one document while the clock advances.
ClockInit ==
    InitWith({"c1"}, [Quota EXCEPT !.joins = ClockEvents, !.leaves = ClockEvents,
                                   !.updates = ClockEvents, !.total = ClockEvents,
                                   !.ticks = MaxTicks])

NextClock ==
    \/ Next
    \/ Tick
    \/ \E t \in saves : SaveLogged(t)

SpecClock == ClockInit /\ [][NextClock]_vars

\* A tab of the owner and the viewer on one document; a database call of a save may
\* reject.
FailInit ==
    InitWith({"c1", "c2"}, [Quota EXCEPT !.joins = FailEvents, !.leaves = FailEvents,
                                         !.updates = FailEvents, !.total = FailEvents,
                                         !.failures = MaxFailures])

NextFail ==
    \/ Next
    \/ \E t \in saves : SaveFailsTimer(t) \/ SaveFailsLeave(t) \/ SaveFailsJoin(t)

SpecFail == FailInit /\ [][NextFail]_vars

\* The two tabs of the owner have joined one document and stay; their updates travel to
\* the server as packets.
OrderInit ==
    InitJoined({"c1", "c3"}, [Quota EXCEPT !.sends = OrderEvents, !.total = OrderEvents])

NextOrder ==
    \/ \E c \in Conns, d \in Docs : SendUpdate(c, d)
    \/ \E c \in Conns : DispatchUpdate(c)
    \/ \E t \in pendingTimers : TimerFire(t)
    \/ \E t \in saves : SaveWrite(t)
    \/ \E t \in saves : SaveVersion(t)
    \/ \E t \in saves : SaveDoneTimer(t)

SpecOrder == OrderInit /\ [][NextOrder]_vars

\* The two tabs of the owner on two documents, as in SpecDocs, with a cursor or typing
\* event.
PresenceInit ==
    InitWith({"c1", "c3"}, [Quota EXCEPT !.joins = DocJoins, !.leaves = MaxLeaves,
                                         !.updates = MaxUpdates,
                                         !.cursors = PresenceEvents,
                                         !.typings = PresenceEvents,
                                         !.total = DocJoins + PresenceEvents,
                                         !.docs = Docs])

NextPresence ==
    \/ NextDocs
    \/ \E c \in Conns : CursorPresence(c, "pos") \/ TypingIndicator(c)

SpecPresence == PresenceInit /\ [][NextPresence]_vars

\* The owner's tab and the viewer's connect with any token, and send any AdmitEvents
\* events.
AdmitInit ==
    InitWith({}, [Quota EXCEPT !.joins = AdmitEvents, !.leaves = AdmitEvents,
                               !.updates = AdmitEvents, !.syncs = AdmitEvents,
                               !.cursors = AdmitEvents, !.typings = AdmitEvents,
                               !.total = AdmitEvents, !.dials = {"c1", "c2"}])

NextAdmit ==
    \/ NextMsg
    \/ \E c \in Conns : \E token \in Tokens(c) : Handshake(c, token)
    \/ \E c \in Conns : HandshakeLookup(c)
    \/ \E c \in Conns : RequestSync(c) \/ SyncReply(c)

SpecAdmit == AdmitInit /\ [][NextAdmit]_vars

\* The owner's tab and the viewer's have joined one document: updates, leaves,
\* disconnects and further joins.
StayInit ==
    InitJoined({"c1", "c2"}, [Quota EXCEPT !.joins = StayEvents, !.leaves = StayEvents,
                                           !.disconnects = StayEvents,
                                           !.updates = StayEvents, !.total = StayEvents])

SpecStay == StayInit /\ [][NextConn]_vars

\* One tab of the owner, whose transport may close and who may reconnect once.
OfflineInit ==
    InitWith({"c1"}, [Quota EXCEPT !.joins = OfflineEvents, !.leaves = MaxLeaves,
                                   !.disconnects = MaxLeaves, !.updates = MaxUpdates,
                                   !.offline = MaxOffline, !.total = OfflineEvents,
                                   !.dials = {"c3"}])

NextOffline ==
    \/ NextConn
    \/ \E c \in Conns, d \in Docs : OfflineEdit(c, d)
    \/ \E c, c2 \in Conns : Reconnect(c, c2)
    \/ \E c \in Conns : HandshakeLookup(c)

SpecOffline == OfflineInit /\ [][NextOffline]_vars

\* The owner's tab and the tab of the collaborator, who holds any of the roles.
RolesInit ==
    \E grant \in Roles :
        InitWith({"c1", "c2"}, [Quota EXCEPT !.joins = RoleEvents, !.leaves = RoleEvents,
                                             !.updates = RoleEvents, !.total = RoleEvents,
                                             !.grant = grant])

SpecRoles == RolesInit /\ [][Next]_vars

\* A tab of the owner and the viewer on one document; the document load of a join may
\* fail.
NextJoinFail ==
    \/ Next
    \/ \E c \in Conns : \E message \in {"Document not found", "Failed to join room"} :
          JoinLoadFails(c, message)

SpecJoinFail == FailInit /\ [][NextJoinFail]_vars

\* Both tabs of the owner have joined the document; the process is told to shut down at
\* any moment, and one database call of a save may reject.
ShutdownInit ==
    InitJoined({"c1", "c3"}, [Quota EXCEPT !.joins = ShutdownEvents, !.leaves = ShutdownEvents,
                                           !.updates = ShutdownEvents,
                                           !.failures = MaxFailures,
                                           !.total = ShutdownEvents])

NextShutdown ==
    \/ server.pc # "closed" /\ Next
    \/ Shutdown
    \/ \E t \in saves : SaveDoneShutdown(t)
    \/ \E t \in saves : SaveFailsShutdown(t)
    \/ ShutdownClose

SpecShutdown == ShutdownInit /\ [][NextShutdown]_vars

\* The owner's tab and u2's send join_room against any rows of the database: the
\* document exists or not, is owned by u1, by u2 or by somebody else, is public or
\* private, and u2 has a collaborator row with any role or none.
AccessInit ==
    \E owner \in Users \cup {NoUser}, grant \in Roles \cup {"null"}, public \in BOOLEAN,
       rows \in {{}, Docs} :
        InitWith({"c1", "c2"}, [Quota EXCEPT !.joins = AccessEvents, !.total = AccessEvents,
                                             !.owner = owner, !.grant = grant,
                                             !.public = public, !.rows = rows])

NextAccess ==
    \/ \E c \in Conns, d \in Docs : JoinRoom(c, d)
    \/ \E c \in Conns : JoinAccess(c)
    \/ \E c \in Conns : JoinLoad(c)
    \/ \E c \in Conns : JoinInfo(c)
    \/ \E t \in saves : SaveWrite(t)
    \/ \E t \in saves : SaveVersion(t)
    \/ \E t \in saves : SaveDoneJoin(t)

SpecAccess == AccessInit /\ [][NextAccess]_vars

\* One tab of the owner is in the room of d1; the owner's other tab and the viewer's
\* are connected and in no room. Each sends any IdleEvents events but join_room.
IdleInit ==
    InitFrom({"c1", "c2", "c3"}, {"c1"},
             [Quota EXCEPT !.leaves = IdleEvents, !.updates = IdleEvents,
                           !.syncs = IdleEvents, !.cursors = IdleEvents,
                           !.typings = IdleEvents, !.total = IdleEvents])

NextIdle ==
    \/ \E c \in Conns : LeaveRoom(c)
    \/ \E c \in Conns, d \in Docs : UpdateOperation(c, d)
    \/ \E c \in Conns : RequestSync(c)
    \/ \E c \in Conns : RequestSyncIgnored(c)
    \/ \E c \in Conns : SyncReply(c)
    \/ \E c \in Conns : CursorPresence(c, "pos")
    \/ \E c \in Conns : TypingIndicator(c)
    \/ \E t \in pendingTimers : TimerFire(t)
    \/ \E t \in saves : SaveWrite(t)
    \/ \E t \in saves : SaveVersion(t)
    \/ \E t \in saves : SaveDoneTimer(t)
    \/ \E t \in saves : SaveDoneLeave(t)

SpecIdle == IdleInit /\ [][NextIdle]_vars

\* ---------------------------------------------------------------- properties
\* The sockets whose join of document d has completed and that have not left since.
JoinedTo(d) == {c \in Conns : socketToRoom[c] = d /\ join[c].pc = "idle"}

\* C1: create-or-attach is atomic. A Room is constructed and inserted into the
\* registry only when no Room is resident for the document, so joins that overlap at
\* the durable-store load insert exactly one Room and no insertion replaces a resident
\* Room together with the roster entries it holds.
C1_OneRoomInserted ==
    [][\A d \in Docs : (rooms'[d] # 0 /\ rooms'[d] # rooms[d]) => rooms[d] = 0]_vars

\* C2: a Room leaves the registry only when its roster is empty, also when a join for
\* the document was processed while the teardown flush awaited the durable store.
C2_DeletedOnlyWhenEmpty ==
    [][\A d \in Docs : (rooms[d] # 0 /\ rooms'[d] = 0) => heap'[rooms[d]].users = {}]_vars

\* The socket c, whose join completed with the Viewer role, sends an update to the
\* resident room of its document in this step.
ViewerSubmits(c) ==
    /\ last'.op = "update_operation"
    /\ last'.conn = c
    /\ socketToRoom[c] \in Docs
    /\ c \in JoinedTo(socketToRoom[c])
    /\ rooms[socketToRoom[c]] # 0
    /\ checkDocumentAccess(UserOf[c], socketToRoom[c]).role = "VIEWER"

\* C3: an update submitted by a joined viewer is rejected: the only event emitted is an
\* error to the submitter, the authoritative state and the save timers are unchanged and
\* the connection stays joined.
C3_ViewerRejected ==
    [][\A c \in Conns : ViewerSubmits(c) =>
          /\ out' = {[Msg(c, "error") EXCEPT !.message = "No permission to edit"]}
          /\ ydocs' = ydocs
          /\ pendingTimers' = pendingTimers
          /\ heap' = heap
          /\ socketToRoom' = socketToRoom]_vars

\* Nothing is left that would write to the durable store: no armed timer, no save in
\* flight, no join in progress.
Quiescent ==
    /\ pendingTimers = {}
    /\ saves = {}
    /\ \A c \in Conns : join[c].pc = "idle"

\* C4: no accepted update is lost. Once nothing is left that would write, every update
\* a Room accepted is contained in a state that was written to its document's row.
C4_AcceptedIsWritten ==
    Quiescent =>
        \A r \in RoomIds : heap[r].documentId \in Docs =>
            hist.accepted[r] \subseteq hist.written[heap[r].documentId]

\* C5: convergence after resync. When a connection completes a fresh join of the
\* resident Room and is mapped to it, holding only updates that a Room accepted from a
\* submitter on its roster, its content equals the Room's authoritative content.
C5_FreshJoinConverges ==
    [][\A c \in Conns :
          (/\ join[c].pc = "info"
           /\ join'[c].pc = "idle"
           /\ socketToRoom'[c] = join[c].documentId
           /\ rooms'[join[c].documentId] = join[c].roomState
           /\ clientDoc'[c] \subseteq hist.byMember)
          => clientDoc'[c] =
                ydocs'[heap'[rooms'[join[c].documentId]].document].content]_vars

\* C6: a request_sync answered in a resident room returns the current in-memory
\* state: the state captured when the request is processed is the content of the room's
\* CRDT document, it holds every update the Room accepted before, and it is the state
\* the sync_state reply carries, whatever has been saved.
C6_SyncServesMemory ==
    [][\A c \in Conns :
          /\ (sync[c].pc = "idle" /\ sync'[c].pc = "version") =>
                LET r == rooms[socketToRoom[c]]
                IN /\ sync'[c].state = ydocs[heap[r].document].content
                   /\ hist.accepted[r] \subseteq sync'[c].state
          /\ (sync[c].pc = "version" /\ sync'[c].pc = "idle") =>
                [Msg(c, "sync_state") EXCEPT !.state = sync[c].state] \in out']_vars

\* A sync was processed after an update, inside the debounce window and before any save.
C6_Witness ==
    \E c \in Conns :
        /\ sync[c].pc = "version"
        /\ sync[c].state # {}
        /\ db[sync[c].documentId].content = {}
        /\ \E t \in pendingTimers : t[1] = rooms[sync[c].documentId]

\* The armed, not yet fired or cleared, debounce timers of a Room.
PendingOf(r) == {t \in pendingTimers : t[1] = r}

C8_DeletedAfterItsFlush ==
    [][\A d \in Docs : (rooms[d] # 0 /\ rooms'[d] = 0) =>
          \A t \in saves' : t.roomState = rooms[d] => t.via = "timer"]_vars

\* C9: the teardown flush cancels the pending debounce timer: once a teardown flush of
\* a Room is in flight, no timer-driven save of that Room begins.
C9_FlushCancelsTimer ==
    [][\A t \in saves' \ saves : (t.via = "timer" /\ t.pc = "write") =>
          ~\E f \in saves : f.via # "timer" /\ f.roomState = t.roomState]_vars

\* The roster entries of an identity.
EntriesOf(users, userId) == {m \in users : m.id = userId}

\* C10: every roster holds at most one entry per identity. The step of a join that
\* enters the room maps the joining connection to it, tracked for its identity; the step
\* that adds the user leaves exactly one entry for the identity in that room and keeps
\* the identity's other connections in the room mapped to it and tracked.
C10_OneMemberPerIdentity ==
    /\ [](\A r \in RoomIds, u \in Users : Cardinality(EntriesOf(heap[r].users, u)) <= 1)
    /\ [][\A c \in Conns :
             LET d == join'[c].documentId
                 u == UserOf[c]
             IN /\ (join[c].pc \in {"access", "flush"} /\ join'[c].pc \in {"load", "info"}) =>
                      (socketToRoom'[c] = d /\ c \in userSockets'[u])
                /\ (join[c].pc # "info" /\ join'[c].pc = "info") =>
                      /\ Cardinality(EntriesOf(heap'[join'[c].roomState].users, u)) = 1
                      /\ \A x \in userSockets[u] \ {c} : socketToRoom[x] = d =>
                            (socketToRoom'[x] = d /\ x \in userSockets'[u])]_vars

\* Both tabs of the owner have joined the document: one entry, two tracked connections.
C10_Witness ==
    /\ {"c1", "c3"} \subseteq JoinedTo("d1")
    /\ rooms["d1"] # 0
    /\ Cardinality(EntriesOf(heap[rooms["d1"]].users, "u1")) = 1
    /\ {"c1", "c3"} \subseteq userSockets["u1"]

\* The socket c, mapped to a resident Room, leaves it in this step, by leave_room or by
\* the close of its transport.
Leaves(c) ==
    /\ last'.op \in {"leave_room", "disconnect"}
    /\ last'.conn = c
    /\ socketToRoom[c] \in Docs
    /\ rooms[socketToRoom[c]] # 0

\* C11: when a connection leaves a room in which its identity has another connection,
\* the roster is unchanged and no user_left is sent; when it was the identity's last
\* connection there, the identity is off the roster and user_left goes to exactly the
\* other connections of the room.
C11_LastConnectionLeaves ==
    [][\A c \in Conns : Leaves(c) =>
          LET d == socketToRoom[c]
              r == rooms[d]
              u == UserOf[c]
              staying == {x \in userSockets[u] \ {c} : socketToRoom[x] = d}
              notices == {m \in out' : m.ev = "user_left"}
          IN IF staying # {}
             THEN heap'[r].users = heap[r].users /\ notices = {}
             ELSE /\ EntriesOf(heap'[r].users, u) = {}
                  /\ notices = {[Msg(x, "user_left") EXCEPT !.userId = u] :
                                   x \in {y \in Conns \ {c} : d \in ioRooms[y] /\ y \notin closed}}]_vars

\* One tab of the owner has left the room, the other is still in it and the owner is
\* still on the roster.
C11_Witness ==
    /\ last.op \in {"leave_room", "disconnect"}
    /\ socketToRoom[last.conn] = NoRoom
    /\ rooms["d1"] # 0
    /\ \E x \in userSockets[UserOf[last.conn]] \ {last.conn} :
          socketToRoom[x] = "d1" /\ join[x].pc = "idle"
    /\ EntriesOf(heap[rooms["d1"]].users, UserOf[last.conn]) # {}

\* C12: once the transport of a connection has closed and its handlers have run to
\* their end, the connection is mapped to no room and its identity, with no other
\* connection in a room, is on no roster of a resident Room.
C12_GoneAfterDisconnect ==
    \A c \in closed :
        (join[c].pc = "idle" /\ \A t \in saves : t.by # c) =>
            /\ socketToRoom[c] = NoRoom
            /\ \A d \in Docs :
                  (rooms[d] # 0 /\ \A x \in userSockets[UserOf[c]] : socketToRoom[x] # d)
                      => EntriesOf(heap[rooms[d]].users, UserOf[c]) = {}

\* C13: a connection is in at most one room, the one it is mapped to: a join to another
\* document has taken it out of the room of the previous one.
C13_InOneRoom ==
    \A c \in Conns : ioRooms[c] \subseteq {socketToRoom[c]}

\* The access check of c's join_room returns without access in this step.
Denied(c) ==
    /\ join[c].pc = "access"
    /\ join'[c].pc = "idle"
    /\ ~checkDocumentAccess(UserOf[c], join[c].documentId).hasAccess

\* C14: a denied join_room changes neither the registry, the Room objects with their
\* rosters and timers, the mapping and the Socket.IO rooms of any connection, the saves
\* in flight nor the database; all it sends is an error event to the caller.
C14_DeniedJoinChangesNothing ==
    [][\A c \in Conns : Denied(c) =>
          /\ UNCHANGED <<rooms, heap, documentStore, ydocs, socketToRoom, ioRooms,
                         userSockets, pendingTimers, saves, db, opLog, snapshots>>
          /\ out' = {[Msg(c, "error") EXCEPT !.message = "Access denied"]}]_vars

\* The viewer, in the room of d1, has just been denied a join (of d2) and still is in
\* the room of d1 and on its roster.
C14_Witness ==
    /\ [Msg("c2", "error") EXCEPT !.message = "Access denied"] \in out
    /\ socketToRoom["c2"] = "d1"
    /\ "d1" \in ioRooms["c2"]
    /\ rooms["d1"] # 0
    /\ EntriesOf(heap[rooms["d1"]].users, "u2") # {}

\* C15: the room_joined event that ends a join of document d, the joiner still being
\* mapped to d, carries every update the Room registered for d has accepted, a roster with the joiner and every identity on
\* that Room's roster, and the role the access check returned.
C15_JoinResponseIsCurrent ==
    [][\A c \in Conns :
          (/\ join[c].pc = "info" /\ join'[c].pc = "idle"
           /\ socketToRoom[c] = join[c].documentId
           /\ rooms[join[c].documentId] # 0) =>
             LET d == join[c].documentId
                 r == rooms[d]
             IN \E m \in out' :
                   /\ m.to = c /\ m.ev = "room_joined"
                   /\ hist.accepted[r] \subseteq m.state
                   /\ {e.id : e \in heap[r].users} \cup {UserOf[c]}
                         \subseteq {e.id : e \in m.users}
                   /\ m.role = checkDocumentAccess(UserOf[c], d).role]_vars

\* C16: an update the server forwards goes to connections mapped to the submitter's
\* room only, never to the submitter, and to every connected one of them.
C16_ForwardedWithinRoom ==
    [][\A c \in Conns :
          (last'.op = "update_operation" /\ last'.conn = c /\ socketToRoom[c] \in Docs) =>
             LET forwarded == {m \in out' : m.ev = "update_operation"}
             IN /\ \A m \in forwarded : m.to # c /\ socketToRoom[m.to] = socketToRoom[c]
                /\ forwarded # {} =>
                      \A x \in Conns \ (closed \cup {c}) :
                          socketToRoom[x] = socketToRoom[c] => \E m \in forwarded : m.to = x]_vars

\* The events the server relays with the sender's identity.
Relayed == {"update_operation", "cursor_presence", "typing_indicator"}

\* C17: every update, cursor and typing event the server broadcasts carries the userId
\* of the socket that sent it, whatever userId the payload held.
C17_BroadcastIdentity ==
    [][last'.op \in Relayed =>
          \A m \in out' : m.ev = last'.op => m.userId = UserOf[last'.conn]]_vars

\* An event whose payload held another user's id has been relayed with the sender's.
C17_Witness ==
    /\ last.op \in Relayed
    /\ last.claimed # UserOf[last.conn]
    /\ \E m \in out : m.ev = last.op /\ m.userId = UserOf[last.conn]

\* C18: an update_operation whose update cannot be decoded leaves the CRDT documents,
\* the Rooms with their timer handles, the pending timers and the saves as they were
\* and sends nothing but, when the submitter is in a Room with write permission, the
\* error event to the submitter.
C18_MalformedUpdate ==
    [][(last'.op = "update_operation" /\ budget'.malformed < budget.malformed) =>
          LET c == last'.conn
              failed == [Msg(c, "error") EXCEPT !.message = "Failed to apply update"]
          IN /\ UNCHANGED <<ydocs, heap, pendingTimers, saves, db, opLog>>
             /\ \A m \in out' : m.to = c /\ m.ev = "error"
             /\ (/\ socketToRoom[c] \in Docs
                 /\ rooms[socketToRoom[c]] # 0
                 /\ RoleIn(Srv, rooms[socketToRoom[c]], UserOf[c]) # "VIEWER")
                   => out' = {failed}]_vars

\* The owner's undecodable update has been answered with the error while the viewer is
\* in the same Socket.IO room.
C18_Witness ==
    /\ last.op = "update_operation"
    /\ out = {[Msg(last.conn, "error") EXCEPT !.message = "Failed to apply update"]}
    /\ \E x \in Conns \ (closed \cup {last.conn}) :
          socketToRoom[last.conn] \in ioRooms[x] /\ join[x].pc = "idle"

\* C19: the operation records of a document carry pairwise different versions, and a
\* save that has read the version for its operation record has read the version its own
\* increment produced.
C19_OneRecordPerVersion ==
    /\ \A row \in BagToSet(opLog) :
          /\ CopiesIn(row, opLog) = 1
          /\ \A other \in BagToSet(opLog) :
                (other.documentId = row.documentId /\ other.version = row.version)
                    => other = row
    /\ \A t \in saves : t.pc = "log" => t.version = t.wrote

\* C20: a save that starts more than the snapshot interval after the Room's last
\* snapshot record was written, or after the Room was created when it has none, does
\* not end without a snapshot.
C20_SnapshotWhenDue ==
    [][\A t \in saves \ saves' :
          (t.pc = "log" /\ [t EXCEPT !.pc = "snapversion"] \notin saves')
              => ~(t.now - hist.snapshotAt[t.roomState] > SNAPSHOT_INTERVAL_MS)]_vars

\* C21: the rejection of a database call of a save emits no event, leaves the content
\* of every CRDT document and the roster of the saved Room as they were, and what a
\* rejected document write should have written is in the state every save of the Room
\* that starts later writes.
C21_FailedSaveIsSilent ==
    [][/\ last'.op = "save_failed" =>
            /\ out' = {}
            /\ \A y \in RoomIds : ydocs'[y].content = ydocs[y].content
            /\ heap'[last'.task.roomState].users = heap[last'.task.roomState].users
            /\ db' = db
       /\ \A t \in saves' \ saves : t.pc = "write" => hist.failed[t.roomState] \subseteq t.state
       /\ \A d \in Docs : db'[d] # db[d] =>
             \E t \in saves \ saves' :
                /\ t.pc = "write" /\ heap[t.roomState].documentId = d
                /\ db'[d].content = t.state]_vars

\* The document write of a save of a Room was rejected, a later save has written the
\* updates it held, and the Room is still resident.
C21_Witness ==
    \E r \in RoomIds :
        /\ hist.failed[r] # {}
        /\ heap[r].documentId \in Docs
        /\ rooms[heap[r].documentId] = r
        /\ hist.failed[r] \subseteq db[heap[r].documentId].content

\* C22: when a database call of a teardown flush is rejected, the Room is out of the
\* registry and its CRDT document out of the store after the step, the timer the Room
\* held is not pending and the database is as it was; and a join that then constructs
\* a Room for a document with no CRDT document in the store starts it from the content
\* the database holds.
C22_FailedFlushStillTearsDown ==
    [][/\ (last'.op = "save_failed" /\ last'.task.via \in {"leave", "join"}) =>
            LET r == last'.task.roomState
                d == heap[r].documentId
            IN /\ rooms'[d] = 0
               /\ documentStore'[d] = 0
               /\ <<r, heap[r].saveTimeout>> \notin pendingTimers'
               /\ db' = db
       /\ \A d \in Docs :
             (rooms'[d] # 0 /\ rooms'[d] # rooms[d] /\ documentStore[d] = 0) =>
                 getState(Srv', rooms'[d]) = db[d].content]_vars

\* The flush of a Room that held an update was rejected at the document write; the
\* Room went, and a Room constructed later for the document holds the database's
\* content, without that update.
C22_Witness ==
    \E r \in RoomIds :
        /\ hist.failed[r] # {}
        /\ heap[r].users = {}
        /\ heap[r].documentId \in Docs
        /\ rooms[heap[r].documentId] \notin {0, r}
        /\ ydocs[heap[rooms[heap[r].documentId]].document].content = db[heap[r].documentId].content
        /\ ~(hist.failed[r] \subseteq db[heap[r].documentId].content)

\* The entries of a sequence of <<connection, update>> pairs that come from one
\* connection appear in the order the connection produced the updates.
InSubmissionOrder(seq) ==
    \A i, j \in DOMAIN seq :
        (i < j /\ seq[i][1] = seq[j][1]) => seq[i][2] < seq[j][2]

\* C23: the updates of one connection are applied to the authoritative state in the
\* order the connection submitted them, and every connection receives those forwarded
\* to it in that order.
C23_SubmissionOrder ==
    /\ InSubmissionOrder(hist.order)
    /\ \A x \in Conns : InSubmissionOrder(hist.received[x])

\* Two updates of one tab were on the wire together before; the other tab has received
\* both.
C23_Witness ==
    \E x \in Conns : \E i, j \in DOMAIN hist.received[x] :
        /\ i < j
        /\ hist.received[x][i][1] = hist.received[x][j][1]
        /\ hist.received[x][i][1] # x

\* The cursor and typing events.
Presence == {"cursor_presence", "typing_indicator"}

\* C24: handling a cursor or typing event changes neither the authoritative state, the
\* version, the durable store nor the save timers, and what it emits goes to the other
\* connections of the sender's room only: never to the sender, never to a connection the
\* server has in another room.
C24_PresenceIsEphemeral ==
    [][last'.op \in Presence =>
          /\ ydocs' = ydocs /\ documentStore' = documentStore
          /\ db' = db /\ opLog' = opLog /\ snapshots' = snapshots
          /\ pendingTimers' = pendingTimers /\ saves' = saves
          /\ \A m \in out' :
                /\ m.ev = last'.op
                /\ m.to # last'.conn
                /\ socketToRoom[m.to] = socketToRoom[last'.conn]]_vars

\* A token the middleware has to accept at time t: present, signed, not expired, and its
\* subject has a row.
Admissible(token, t) ==
    /\ token.present /\ token.signed
    /\ t \div 1000 < token.exp
    /\ token.userId \in Users

\* A handler has run for socket c, or the server holds something for it.
Served(c) ==
    \/ join[c].pc # "idle" \/ sync[c].pc # "idle"
    \/ socketToRoom[c] # NoRoom \/ ioRooms[c] # {}
    \/ last.conn = c /\ last.op # Internal.op

\* C25: a socket whose token was missing, invalid or expired when it connected, or whose
\* subject had no row, is never tracked in userSockets, and no join, leave, update, sync
\* or presence handler ever runs for it.
C25_AdmissionFirst ==
    \A c \in Conns :
        ~Admissible(handshake[c].token, handshake[c].at) =>
            /\ \A u \in Users : c \notin userSockets[u]
            /\ ~Served(c)

\* One socket has been refused for an expired token while the other, admitted, has had
\* an update handled.
C25_Witness ==
    /\ \E c \in Conns :
          /\ handshake[c].pc = "refused"
          /\ handshake[c].token.signed /\ handshake[c].token.userId \in Users
    /\ \E c \in Conns :
          /\ handshake[c].pc = "admitted"
          /\ last.op = "update_operation" /\ last.conn = c

\* C26: a leave or disconnect of a room member that leaves the roster non-empty keeps
\* the room registered, starts no save, cancels no timer and changes neither the CRDT
\* documents nor the store, so that the state a sync request of a remaining member reads
\* is the state from before the leave.
C26_LeaveOfNonLastMember ==
    [][\A c \in Conns, d \in Docs :
          (/\ last'.op \in {"leave_room", "disconnect"} /\ last'.conn = c
           /\ socketToRoom[c] = d /\ rooms[d] # 0
           /\ heap'[rooms[d]].users # {}) =>
             /\ rooms'[d] = rooms[d]
             /\ saves' = saves
             /\ pendingTimers' = pendingTimers
             /\ ydocs' = ydocs /\ documentStore' = documentStore
             /\ getState(Srv, rooms[d]) = ydocs'[heap'[rooms'[d]].document].content]_vars

\* A member has just left a room whose debounce timer is armed, the others were told,
\* and the room is still registered with a non-empty roster and its timer.
C26_Witness ==
    /\ last.op \in {"leave_room", "disconnect"}
    /\ \E m \in out : m.ev = "user_left" /\ m.userId = UserOf[last.conn]
    /\ \E d \in Docs :
          /\ rooms[d] # 0
          /\ heap[rooms[d]].users # {}
          /\ \E t \in pendingTimers : t[1] = rooms[d]
          /\ getState(Srv, rooms[d]) # {}

\* The sockets to which the segment that ran last sent user_joined.
Notified == {m.to : m \in {x \in out : x.ev = "user_joined"}}

\* C27: when a join completes, user_joined goes to every other connected socket the
\* server has in that room, and not to the joining socket.
C27_JoinedToOthers ==
    [][\A c \in Conns :
          (join[c].pc = "info" /\ join'[c].pc = "idle") =>
             /\ c \notin Notified'
             /\ \A x \in Conns \ (closed \cup {c}) :
                   socketToRoom[x] = join[c].documentId => x \in Notified']_vars

\* A join has completed in a room where another socket was: that socket was notified.
C27_Witness ==
    /\ Notified # {}
    /\ \E c \in Conns : \E m \in out :
          /\ m.ev = "room_joined" /\ m.to = c
          /\ socketToRoom[c] \in Docs
          /\ \A x \in Notified : x # c /\ socketToRoom[x] = socketToRoom[c]

\* C28: once a client that edited while its transport was closed has reconnected and
\* rejoined, and its join has completed, the server's state of the room holds those
\* edits.
C28_NoLossAcrossDisconnect ==
    \A c \in Conns :
        (/\ Connected(c)
         /\ join[c].pc = "idle" /\ wire[c] = <<>>
         /\ socketToRoom[c] \in Docs /\ rooms[socketToRoom[c]] # 0) =>
            (clientDoc[c] \cap hist.offline) \subseteq getState(Srv, rooms[socketToRoom[c]])

\* The access-control table of the README.
AccessTable ==
    \A role \in Roles :
        /\ hasPermission(role, "read")
        /\ canEdit(role) <=> role \in {"OWNER", "EDITOR"}
        /\ canDelete(role) <=> role = "OWNER"
        /\ canShare(role) <=> role = "OWNER"

\* C29: the role functions agree with the access-control table, and the server applies
\* the update of a socket whose identity is on the roster of its room exactly when canEdit
\* holds of the role the roster has for it.
C29_RoleTable ==
    [][/\ AccessTable
       /\ \A c \in Conns :
            (/\ last'.op = "update_operation" /\ last'.conn = c
             /\ nextUpdate' # nextUpdate
             /\ socketToRoom[c] \in Docs /\ rooms[socketToRoom[c]] # 0
             /\ RoleIn(Srv, rooms[socketToRoom[c]], UserOf[c]) \in Roles) =>
               LET r == rooms[socketToRoom[c]]
               IN nextUpdate \in ydocs'[heap[r].document].content
                     <=> canEdit(RoleIn(Srv, r, UserOf[c]))]_vars

\* The collaborator holds EDITOR, is on the roster with it, and its update has been
\* applied and forwarded.
C29_Witness ==
    /\ budget.grant = "EDITOR"
    /\ last.op = "update_operation" /\ last.conn = "c2"
    /\ socketToRoom["c2"] \in Docs /\ rooms[socketToRoom["c2"]] # 0
    /\ RoleIn(Srv, rooms[socketToRoom["c2"]], "u2") = "EDITOR"
    /\ getState(Srv, rooms[socketToRoom["c2"]]) # {}
    /\ \E m \in out : m.ev = "update_operation" /\ m.userId = "u2"

\* No handler of any connection is suspended at an await.
NoHandlerInFlight ==
    /\ \A c \in Conns : join[c].pc = "idle" /\ overtaken[c].pc = "idle" /\ sync[c].pc = "idle"
    /\ \A t \in saves : t.via = "timer"

\* C30: while no handler is in flight, every identity on the roster of a registered room
\* has a connected socket that is mapped to that room.
C30_NoGhostMembers ==
    NoHandlerInFlight =>
        \A d \in Docs :
            rooms[d] # 0 =>
                \A m \in heap[rooms[d]].users :
                    \E x \in Conns \ closed : UserOf[x] = m.id /\ socketToRoom[x] = d

\* C31: an update submitted by a socket that is mapped to a registered room on whose
\* roster its identity has no entry is neither applied to the room's document nor
\* forwarded.
C31_NoRosterNoWrite ==
    [][\A c \in Conns :
          (/\ last'.op = "update_operation" /\ last'.conn = c
           /\ socketToRoom[c] \in Docs /\ rooms[socketToRoom[c]] # 0
           /\ RoleIn(Srv, rooms[socketToRoom[c]], UserOf[c]) = "undefined") =>
             /\ ydocs' = ydocs
             /\ \A m \in out' : m.ev # "update_operation"]_vars

\* C32: while no handler is in flight, the room a socket is mapped to is registered.
C32_NoDanglingMapping ==
    NoHandlerInFlight =>
        \A c \in Conns : socketToRoom[c] # NoRoom => rooms[socketToRoom[c]] # 0

\* The updates that the Rooms constructed for document d have accepted.
AcceptedFor(d) == UNION {hist.accepted[r] : r \in {x \in RoomIds : heap[x].documentId = d}}

\* C33: every joiner sees every update. When a Room accepts an update, the update is
\* emitted to every other connected socket whose join of the document has completed; and
\* a connected socket whose join of document d has completed, and that has not left
\* since, holds every update the room of d accepted: it was sent it in the state of its
\* room_joined or as a broadcast, or it made the edit itself (an editing client applies
\* its own edits before it submits them).
C33_JoinerSeesEveryUpdate ==
    /\ [](\A d \in Docs : \A c \in JoinedTo(d) \ closed :
            (/\ overtaken[c].pc = "idle"
             /\ rooms[d] # 0
             /\ checkDocumentAccess(UserOf[c], d).role \in {"OWNER", "EDITOR"}) =>
                AcceptedFor(d) \subseteq clientDoc[c])
    /\ [][\A d \in Docs : \A u \in Updates :
             (u \in AcceptedFor(d)' /\ u \notin AcceptedFor(d)) =>
                \A c \in (JoinedTo(d) \ closed) \ {last'.conn} :
                    \E m \in out' : m.to = c /\ m.ev = "update_operation" /\ m.update = u]_vars

\* C34: a join for the document whose room the socket is already in performs no leave.
\* The step of such a join that follows the access check emits no user_left, starts no
\* teardown flush and leaves the registry and the room's roster as they were but for
\* the joiner's own entry.
C34_RejoinPerformsNoLeave ==
    [][\A c \in Conns :
          (/\ join[c].pc = "access" /\ join'[c].pc # "access"
           /\ socketToRoom[c] = join[c].documentId
           /\ rooms[join[c].documentId] # 0) =>
              /\ \A m \in out' : m.ev # "user_left"
              /\ saves' = saves
              /\ rooms' = rooms
              /\ socketToRoom'[c] = socketToRoom[c]]_vars

\* C35: join merges into an existing member. When the step of a join that adds the
\* user finds an entry of the joiner's identity on the roster, put there by another
\* connection of the identity that is in the room, the entry keeps its cursor.
C35_JoinKeepsCursor ==
    [][\A c \in Conns :
          (join[c].pc # "info" /\ join'[c].pc = "info") =>
              LET r == join'[c].roomState
                  userId == UserOf[c]
              IN \A m \in heap[r].users :
                    (/\ m.id = userId
                     /\ \E x \in Conns \ {c} :
                           UserOf[x] = userId /\ socketToRoom[x] = join'[c].documentId) =>
                        \E n \in heap'[r].users : n.id = userId /\ n.cursor = m.cursor]_vars

\* C36: durable writes happen only for unpersisted changes. A step changes the version
\* of a document's row only when a Room of the document holds an accepted update that
\* is in no state written so far, and appends to the operation log only when some Room
\* of a document has accepted an update.
C36_WritesOnlyUnpersisted ==
    [][/\ \A d \in Docs :
            db'[d].version # db[d].version => ~(AcceptedFor(d) \subseteq hist.written[d])
       /\ opLog' # opLog => \E d \in Docs : AcceptedFor(d) # {}]_vars

\* C37: document_saved follows the state write. The step in which a save ends with a
\* rejected database call emits no document_saved when the rejected call is the write of
\* the document state, and emits document_saved to every connected socket of the
\* document's Socket.IO room when the state had been written and a later call, the
\* operation-log or the snapshot append, is the one that rejected.
C37_SavedIffStateWritten ==
    [][last'.op = "save_failed" =>
          LET t == last'.task
              d == heap[t.roomState].documentId
          IN IF t.pc = "write"
             THEN \A m \in out' : m.ev # "document_saved"
             ELSE \A x \in AllInRoom(Srv, d) \ closed :
                     \E m \in out' : m.to = x /\ m.ev = "document_saved"]_vars

\* C38: graceful shutdown saves everything resident. shutdown() starts a save for every
\* Room registered at that moment; the transport is closed only when none of those saves
\* is still in flight; and when no database call has rejected, the row of every document
\* then holds every update a Room of the document accepted before shutdown began.
C38_ShutdownSavesResident ==
    [][/\ (server.pc = "running" /\ server'.pc = "saving") =>
             \A d \in Docs : rooms[d] # 0 =>
                \E t \in saves' \ saves :
                    /\ t.via = "shutdown" /\ t.roomState = rooms[d]
                    /\ t.state = ydocs[heap[rooms[d]].document].content
       /\ (server.pc = "saving" /\ server'.pc = "closed") =>
             /\ \A t \in saves : t.via # "shutdown"
             /\ budget.failures = MaxFailures =>
                   \A d \in Docs : server.accepted[d] \subseteq db[d].content]_vars

\* The role by the fixed precedence: no document row denies; the owner is OWNER; a
\* collaborator row gives its role; a public document gives VIEWER; anything else denies.
Precedence(userId, documentId) ==
    LET rows == {k \in Collaborators : k.userId = userId /\ k.documentId = documentId}
    IN CASE ~DocExists[documentId] -> [hasAccess |-> FALSE, role |-> "null"]
         [] DocExists[documentId] /\ DocOwner[documentId] = userId ->
                [hasAccess |-> TRUE, role |-> "OWNER"]
         [] DocExists[documentId] /\ DocOwner[documentId] # userId /\ rows # {} ->
                [hasAccess |-> TRUE, role |-> (CHOOSE k \in rows : TRUE).role]
         [] DocExists[documentId] /\ DocOwner[documentId] # userId /\ rows = {}
               /\ IsPublic[documentId] -> [hasAccess |-> TRUE, role |-> "VIEWER"]
         [] OTHER -> [hasAccess |-> FALSE, role |-> "null"]

\* C39: checkDocumentAccess resolves the role by the fixed precedence for every
\* combination of document row, owner, collaborator row and public flag, and
\* handleJoinRoom acts on it: a join is denied at the access check exactly when the
\* precedence denies, and the roster entry it adds carries the role the precedence gives.
C39_AccessPrecedence ==
    /\ [](\A u \in Users, d \in Docs : checkDocumentAccess(u, d) = Precedence(u, d))
    /\ [][\A c \in Conns :
             LET d == join[c].documentId
                 p == Precedence(UserOf[c], d)
             IN /\ (join[c].pc = "access" /\ join'[c].pc # "access") =>
                      /\ p.hasAccess <=> join'[c].pc # "idle"
                      /\ ~p.hasAccess =>
                            \E m \in out' : m.to = c /\ m.ev = "error"
                                                   /\ m.message = "Access denied"
                /\ (join[c].pc # "info" /\ join'[c].pc = "info") =>
                      \E m \in heap'[join'[c].roomState].users :
                          m.id = UserOf[c] /\ m.role = Precedence(UserOf[c],
                                                                 join'[c].documentId).role]_vars

\* u2, who has an EDITOR collaborator row on a public document owned by somebody else,
\* has been added to the roster as EDITOR.
C39_Witness ==
    /\ budget.public /\ budget.grant = "EDITOR" /\ budget.owner = NoUser
    /\ join["c2"].pc = "info"
    /\ \E m \in heap[join["c2"].roomState].users : m.id = "u2" /\ m.role = "EDITOR"

\* C40: operations from a connection that is in no room are no-ops. The handler of an
\* update_operation, request_sync, cursor_presence, typing_indicator or leave_room of a
\* socket that is mapped to no room changes no registry entry, roster, CRDT document or
\* timer, starts no save, leaves the mappings and the database as they are and emits
\* nothing.
C40_NoRoomNoOp ==
    [][\A c \in Conns :
          (/\ last'.op \in {"update_operation", "request_sync", "cursor_presence",
                            "typing_indicator", "leave_room"}
           /\ last'.conn = c
           /\ socketToRoom[c] = NoRoom) =>
              /\ rooms' = rooms /\ heap' = heap
              /\ documentStore' = documentStore /\ ydocs' = ydocs
              /\ pendingTimers' = pendingTimers /\ saves' = saves
              /\ socketToRoom' = socketToRoom /\ ioRooms' = ioRooms
              /\ userSockets' = userSockets
              /\ db' = db /\ opLog' = opLog /\ snapshots' = snapshots
              /\ sync' = sync
              /\ out' = {}]_vars

\* The owner's second tab, in no room, has sent cursor_presence while the owner is on
\* the roster of the room its first tab is in.
C40_Witness ==
    /\ last.op = "cursor_presence" /\ last.conn = "c3"
    /\ socketToRoom["c3"] = NoRoom
    /\ socketToRoom["c1"] = "d1" /\ rooms["d1"] # 0
    /\ \E m \in heap[rooms["d1"]].users : m.id = "u1" /\ m.cursor = NullCursor

====
